---- MODULE Spec2Model ----
(***************************************************************************)
(* Model of the analytics-assistant scripts: the DDL extractor             *)
(* (extract_ddl.py) and the training file loader (train_from_files.py).    *)
(* Text is modelled as TLA+ strings, built and taken apart the way the     *)
(* Python code does it (f-strings, str.upper, str.strip, str.split).       *)
(***************************************************************************)
EXTENDS Integers, Sequences, FiniteSets, TLC

VARIABLES
    \* ---- DDLExtractor.run_extraction (one process run after another) ----
    catalog,      \* what the database answers to the six catalog queries
    platform,     \* "windows" or "posix": decides what `date /t` prints
    clock,        \* minutes elapsed on the wall clock
    files,        \* data/ddl: file name -> content, NoFile when absent
    pc,           \* position inside run_extraction
    conn,         \* self.conn: "none", "open", "closed"
    connected,    \* connect_to_database returned True in this run
    closes,       \* number of conn.close() calls in this run
    counts,       \* the local dict counts
    started,      \* steps entered in this run, in order
    returned,     \* steps that returned normally in this run, in order
    error,        \* [step, kind] of the exception raised in this run, or NoError
    caught,       \* the except clause of run_extraction ran
    printed,      \* the outcome lines printed by run_extraction and connect_to_database
    filesAtStart, \* files when this run started
    runs,         \* number of runs started
    prev,         \* outcome of the previous run: [ok, files, catalog, stamp]
    stamp,        \* the date/time text read by create_summary_file in this run
    \* ---- DDLExtractor.extract_table_ddl, row by row ----
    t_pc, t_results, t_i, t_row, t_col_def, t_tables, t_content, t_ret,
    \* ---- extract_primary_keys, extract_foreign_keys, extract_indexes ----
    k_catalog,    \* the keys and indexes of the database
    k_pc,         \* the next of the three methods to be called
    k_files,      \* method -> content it wrote
    k_counts,     \* method -> count it returned
    \* ---- VannaTrainer.parse_example_file, line by line ----
    p_content,    \* the argument content
    p_lines, p_i, p_line, p_current_question, p_current_sql, p_examples, p_pc,
    \* ---- VannaTrainer.run_training ----
    r_fs,               \* the data directory and the listings of its four directories
    r_pc,               \* position inside run_training
    r_phase,            \* index in Phases of the directory being processed
    r_files,            \* process_directory: the local files
    r_k,                \* process_directory: files of the loop already handled
    r_success_count,    \* process_directory: the local success_count
    r_examples,         \* train_examples: the local examples
    r_e,                \* train_examples: examples of the loop already handled
    r_ex_success_count, \* train_examples: the local success_count
    r_auto,             \* what auto_train returned, None before the call
    r_counts,           \* directory -> what process_directory returned, None before
    r_total_success,    \* run_training: the local total_success
    r_posts,            \* the POST requests issued, in order
    r_reads,            \* the files opened, in order
    r_processed,        \* the files the loop of process_directory has taken up, in order
    r_resp,             \* what requests.post produced last
    r_call,             \* the last training call and what was recorded for it
    r_trained,          \* the training operations run on files, with what they returned
    r_phases,           \* the phases of run_training entered, in order
    r_printed           \* the lines printed by run_training and process_directory

\* ------------------------------------------------------------------------
\* Python values
\* ------------------------------------------------------------------------

\* None / a present value, for the nullable catalog columns
None == <<>>
Some(v) == <<v>>
IsNone(o) == o = <<>>
Val(o) == o[1]

\* Python truthiness of an optional integer: None and 0 are false
TruthyInt(o) == o # <<>> /\ o[1] # 0

\* Python truthiness of an optional string: None and "" are false
TruthyStr(o) == o # <<>> /\ o[1] # ""

\* str(n) as an f-string renders an integer
Str(n) == ToString(n)

LowerLetters == "abcdefghijklmnopqrstuvwxyz"
UpperLetters == "ABCDEFGHIJKLMNOPQRSTUVWXYZ"

\* str.upper() on one character
UpperChar(c) ==
    IF \E i \in 1..Len(LowerLetters) : SubSeq(LowerLetters, i, i) = c
    THEN LET i == CHOOSE j \in 1..Len(LowerLetters) : SubSeq(LowerLetters, j, j) = c
         IN  SubSeq(UpperLetters, i, i)
    ELSE c

RECURSIVE Upper(_)
\* str.upper()
Upper(s) == IF s = "" THEN "" ELSE UpperChar(SubSeq(s, 1, 1)) \o Upper(Tail(s))

\* str.startswith(p)
StartsWith(s, p) == Len(s) >= Len(p) /\ SubSeq(s, 1, Len(p)) = p

RECURSIVE Join(_, _)
\* sep.join(parts)
Join(sep, parts) ==
    IF parts = <<>> THEN ""
    ELSE IF Len(parts) = 1 THEN parts[1]
    ELSE parts[1] \o sep \o Join(sep, Tail(parts))

\* number of (possibly overlapping) occurrences of p in s
CountOcc(s, p) ==
    Cardinality({i \in 1..(Len(s) - Len(p) + 1) : SubSeq(s, i, i + Len(p) - 1) = p})

\* p occurs in s
Contains(s, p) == CountOcc(s, p) > 0

\* ------------------------------------------------------------------------
\* extract_table_ddl: rendering of the column rows
\* ------------------------------------------------------------------------

CharTypes == {"VARCHAR", "NVARCHAR", "CHAR", "NCHAR"}
NumTypes == {"DECIMAL", "NUMERIC"}

\* lines 101-111 testing num_scale with "is not None" instead of its truth value
LengthPrecision_scale(row) ==
    LET ty == Upper(row.data_type)
    IN  IF ty \in CharTypes /\ TruthyInt(row.char_len)
        THEN (IF Val(row.char_len) = -1 THEN "(MAX)"
              ELSE "(" \o Str(Val(row.char_len)) \o ")")
        ELSE IF ty \in NumTypes /\ TruthyInt(row.num_prec)
        THEN (IF ~IsNone(row.num_scale)
              THEN "(" \o Str(Val(row.num_prec)) \o "," \o Str(Val(row.num_scale)) \o ")"
              ELSE "(" \o Str(Val(row.num_prec)) \o ")")
        ELSE ""

\* lines 101-111 comparing data_type without .upper()
LengthPrecision_nocase(row) ==
    LET ty == row.data_type
    IN  IF ty \in CharTypes /\ TruthyInt(row.char_len)
        THEN (IF Val(row.char_len) = -1 THEN "(MAX)"
              ELSE "(" \o Str(Val(row.char_len)) \o ")")
        ELSE IF ty \in NumTypes /\ TruthyInt(row.num_prec)
        THEN (IF TruthyInt(row.num_scale)
              THEN "(" \o Str(Val(row.num_prec)) \o "," \o Str(Val(row.num_scale)) \o ")"
              ELSE "(" \o Str(Val(row.num_prec)) \o ")")
        ELSE ""

\* lines 101-111: the length / precision suffix of one column
LengthPrecision(row) ==
    LET ty == Upper(row.data_type)
    IN  IF ty \in CharTypes /\ TruthyInt(row.char_len)
        THEN (IF Val(row.char_len) = -1 THEN "(MAX)"
              ELSE "(" \o Str(Val(row.char_len)) \o ")")
        ELSE IF ty \in NumTypes /\ TruthyInt(row.num_prec)
        THEN (IF TruthyInt(row.num_scale)
              THEN "(" \o Str(Val(row.num_prec)) \o "," \o Str(Val(row.num_scale)) \o ")"
              ELSE "(" \o Str(Val(row.num_prec)) \o ")")
        ELSE ""

\* lines 98-119: col_def of one row
ColDef(row) ==
    "    " \o row.col_name \o " " \o Upper(row.data_type)
    \o LengthPrecision(row)
    \o (IF row.nullable = "NO" THEN " NOT NULL" ELSE "")
    \o (IF TruthyStr(row.default) THEN " DEFAULT " \o Val(row.default) ELSE "")

\* line 94: full_table_name
full_table_name(row) == row.schema \o "." \o row.table_name

\* the dict tables, kept as the sequence of its entries in insertion order
HasKey(tables, key) == \E j \in 1..Len(tables) : tables[j].key = key

\* lines 94-96 and 121: tables[full_table_name].append(col_def)
TablesAppend(tables, row) ==
    LET key == full_table_name(row)
        tbl == IF HasKey(tables, key) THEN tables
               ELSE Append(tables, [key |-> key, cols |-> <<>>])
    IN  [j \in 1..Len(tbl) |->
            IF tbl[j].key = key
            THEN [tbl[j] EXCEPT !.cols = Append(@, ColDef(row))]
            ELSE tbl[j]]

RECURSIVE BuildTables(_, _)
\* lines 90-121: the loop over the fetched rows
BuildTables(tables, results) ==
    IF results = <<>> THEN tables
    ELSE BuildTables(TablesAppend(tables, Head(results)), Tail(results))

TableHeader == "-- Table Definitions\n-- Generated automatically from database schema\n\n"

RECURSIVE CreateTables(_)
\* lines 126-129: one CREATE TABLE statement per dict entry
CreateTables(tables) ==
    IF tables = <<>> THEN ""
    ELSE "CREATE TABLE " \o tables[1].key \o " (\n"
         \o Join(",\n", tables[1].cols)
         \o "\n);\n\n"
         \o CreateTables(Tail(tables))

\* lines 90-137: content written to 01_tables.sql and the returned count
extract_table_ddl(results) ==
    LET tables == BuildTables(<<>>, results)
    IN  [content |-> TableHeader \o CreateTables(tables), count |-> Len(tables)]

\* ------------------------------------------------------------------------
\* extract_table_ddl, one loop iteration per step
\* ------------------------------------------------------------------------

\* largest number of column rows in a fetched result
MaxRows == 3

\* (schema, table) pairs of the base tables, in the ORDER BY order of the query
TablePairs == << <<"dbo", "orders">>, <<"dbo", "sales.orders">>, <<"dbo.sales", "orders">> >>

DataTypes == {"varchar", "NVARCHAR", "Char", "nchar", "int", "decimal", "Numeric", "varbinary"}
CharLens == {None, Some(-1), Some(1), Some(50)}
NumPrecs == {None, Some(10)}
NumScales == {None, Some(0), Some(2)}
Nullables == {"YES", "NO"}
Defaults == {None, Some("((0))")}

\* one row of the column query (line 92)
Row(pair, pos, ty, len, prec, scale, nullable, default) ==
    [schema |-> pair[1], table_name |-> pair[2], col_name |-> "c" \o Str(pos),
     data_type |-> ty, char_len |-> len, num_prec |-> prec, num_scale |-> scale,
     nullable |-> nullable, default |-> default, pos |-> pos]

\* the column shapes used in results of more than one row
ColumnKinds ==
    { [ty |-> "int", len |-> None, prec |-> Some(10), scale |-> Some(0), nullable |-> "NO", default |-> None],
      [ty |-> "varchar", len |-> Some(50), prec |-> None, scale |-> None, nullable |-> "YES", default |-> None] }

\* ORDINAL_POSITION of the i-th row: its rank among the rows of its table
Ordinal(ps, i) == Cardinality({j \in 1..i : ps[j] = ps[i]})

\* results ordered by schema, table, ordinal position (line 84)
GroupedResults ==
    { [i \in 1..n |-> Row(TablePairs[ps[i]], Ordinal(ps, i), ks[i].ty, ks[i].len, ks[i].prec,
                          ks[i].scale, ks[i].nullable, ks[i].default)] :
        <<n, ps, ks>> \in
            { <<n, ps, ks>> \in UNION { {m} \X [1..m -> 1..Len(TablePairs)] \X [1..m -> ColumnKinds]
                                        : m \in 0..MaxRows } :
                \A i \in 1..(n - 1) : ps[i] <= ps[i + 1] } }

\* results of one row, over every combination of the column attributes
SingleResults ==
    { << Row(TablePairs[1], 1, ty, len, prec, scale, nullable, default) >> :
        <<ty, len, prec, scale, nullable, default>> \in
            DataTypes \X CharLens \X NumPrecs \X NumScales \X Nullables \X Defaults }

TableResults == GroupedResults \cup SingleResults

NoRow == <<>>

tvars == <<t_pc, t_results, t_i, t_row, t_col_def, t_tables, t_content, t_ret>>

\* lines 87-90: the rows are fetched, tables = {}
TablesInit ==
    /\ t_results \in TableResults
    /\ t_pc = "loop"
    /\ t_i = 0
    /\ t_row = NoRow
    /\ t_col_def = ""
    /\ t_tables = <<>>
    /\ t_content = ""
    /\ t_ret = 0

\* lines 91-121: one iteration of the loop over results
TableRow ==
    /\ t_pc = "loop"
    /\ t_i < Len(t_results)
    /\ t_i' = t_i + 1
    /\ t_row' = t_results[t_i + 1]
    /\ t_col_def' = ColDef(t_results[t_i + 1])
    /\ t_tables' = TablesAppend(t_tables, t_results[t_i + 1])
    /\ UNCHANGED <<t_pc, t_results, t_content, t_ret>>

\* lines 123-137: generate the statements, write 01_tables.sql, return len(tables)
TableSave ==
    /\ t_pc = "loop"
    /\ t_i = Len(t_results)
    /\ t_content' = TableHeader \o CreateTables(t_tables)
    /\ t_ret' = Len(t_tables)
    /\ t_pc' = "done"
    /\ UNCHANGED <<t_results, t_i, t_row, t_col_def, t_tables>>

\* ------------------------------------------------------------------------
\* the catalog queries for keys and indexes, and their rendering
\* ------------------------------------------------------------------------

\* lines 143-157: one row per primary key; STRING_AGG joins its columns
PkQuery(pks) ==
    [i \in 1..Len(pks) |->
        [schema |-> pks[i].schema, table_name |-> pks[i].table_name,
         constraint_name |-> pks[i].name, columns |-> Join(", ", pks[i].cols)]]

RECURSIVE FkQuery(_)
\* lines 181-199: the join with sys.foreign_key_columns has no GROUP BY and no
\* STRING_AGG: one row per column of each foreign key
FkQuery(fks) ==
    IF fks = <<>> THEN <<>>
    ELSE LET fk == Head(fks)
         IN  [j \in 1..Len(fk.cols) |->
                 [constraint_name |-> fk.name, parent_table |-> fk.table_name,
                  parent_schema |-> fk.schema, parent_column |-> fk.cols[j],
                  ref_table |-> fk.ref_table, ref_schema |-> fk.ref_schema,
                  ref_column |-> fk.ref_cols[j]]]
             \o FkQuery(Tail(fks))

\* lines 255-273: one row per index; STRING_AGG joins its columns
IndexQuery(idxs) ==
    [i \in 1..Len(idxs) |->
        [schema |-> idxs[i].schema, table_name |-> idxs[i].table_name,
         index_name |-> idxs[i].name, is_unique |-> idxs[i].is_unique,
         columns |-> Join(", ", idxs[i].cols)]]

PkHeader == "-- Primary Key Constraints\n-- Generated automatically from database schema\n\n"
FkHeader == "-- Foreign Key Constraints\n-- Generated automatically from database schema\n\n"
IndexHeader == "-- Index Definitions\n-- Generated automatically from database schema\n\n"
ViewHeader == "-- View Definitions\n-- Generated automatically from database schema\n\n"
ProcHeader == "-- Stored Procedure Definitions\n-- Generated automatically from database schema\n\n"

RECURSIVE PkStatements(_)
\* lines 164-167
PkStatements(results) ==
    IF results = <<>> THEN ""
    ELSE LET row == Head(results)
         IN  "ALTER TABLE " \o row.schema \o "." \o row.table_name \o "\n"
             \o "ADD CONSTRAINT " \o row.constraint_name \o " PRIMARY KEY (" \o row.columns \o ");\n\n"
             \o PkStatements(Tail(results))

\* lines 159-175: content written to 02_primary_keys.sql and the returned count
extract_primary_keys(results) ==
    [content |-> PkHeader \o PkStatements(results), count |-> Len(results)]

RECURSIVE FkStatements(_)
\* lines 206-210
FkStatements(results) ==
    IF results = <<>> THEN ""
    ELSE LET row == Head(results)
         IN  "ALTER TABLE " \o row.parent_schema \o "." \o row.parent_table \o "\n"
             \o "ADD CONSTRAINT " \o row.constraint_name \o " FOREIGN KEY (" \o row.parent_column \o ")\n"
             \o "REFERENCES " \o row.ref_schema \o "." \o row.ref_table \o "(" \o row.ref_column \o ");\n\n"
             \o FkStatements(Tail(results))

\* lines 201-218: content written to 03_foreign_keys.sql and the returned count
extract_foreign_keys(results) ==
    [content |-> FkHeader \o FkStatements(results), count |-> Len(results)]

RECURSIVE IndexStatements(_)
\* lines 280-285
IndexStatements(results) ==
    IF results = <<>> THEN ""
    ELSE LET row == Head(results)
             unique_clause == IF row.is_unique THEN "UNIQUE " ELSE ""
         IN  "CREATE " \o unique_clause \o "INDEX " \o row.index_name \o "\n"
             \o "ON " \o row.schema \o "." \o row.table_name \o " (" \o row.columns \o ");\n\n"
             \o IndexStatements(Tail(results))

\* lines 275-293: content written to 05_indexes.sql and the returned count
extract_indexes(results) ==
    [content |-> IndexHeader \o IndexStatements(results), count |-> Len(results)]

RECURSIVE ViewStatements(_)
\* lines 238-241
ViewStatements(results) ==
    IF results = <<>> THEN ""
    ELSE LET row == Head(results)
         IN  "CREATE VIEW " \o row.schema \o "." \o row.name \o " AS\n"
             \o row.definition \o ";\n\n"
             \o ViewStatements(Tail(results))

\* lines 233-249: content written to 04_views.sql and the returned count
extract_views(results) ==
    [content |-> ViewHeader \o ViewStatements(results), count |-> Len(results)]

RECURSIVE ProcStatements(_)
\* lines 315-318
ProcStatements(results) ==
    IF results = <<>> THEN ""
    ELSE LET row == Head(results)
         IN  "-- " \o row.schema \o "." \o row.name \o "\n"
             \o row.definition \o ";\n\n"
             \o ProcStatements(Tail(results))

\* lines 310-326: content written to 06_stored_procedures.sql and the returned count
extract_stored_procedures(results) ==
    [content |-> ProcHeader \o ProcStatements(results), count |-> Len(results)]

\* ------------------------------------------------------------------------
\* extract_primary_keys, extract_foreign_keys, extract_indexes on their own
\* ------------------------------------------------------------------------

\* largest number of primary keys, of foreign keys and of indexes in the database
MaxKeys == 2

\* largest number of columns of a key or an index
MaxKeyCols == 2

\* the i-th primary key of the database, over n columns
PkObject(i, n) ==
    [schema |-> "dbo", table_name |-> "t" \o Str(i), name |-> "PK_t" \o Str(i),
     cols |-> [j \in 1..n |-> "k" \o Str(j)]]

\* the i-th foreign key of the database, over n columns
FkObject(i, n) ==
    [schema |-> "dbo", table_name |-> "t" \o Str(i), name |-> "FK_t" \o Str(i),
     cols |-> [j \in 1..n |-> "k" \o Str(j)],
     ref_schema |-> "ref", ref_table |-> "r" \o Str(i), ref_cols |-> [j \in 1..n |-> "x" \o Str(j)]]

\* the i-th index of the database, over n columns
IndexObject(i, n, unique) ==
    [schema |-> "dbo", table_name |-> "t" \o Str(i), name |-> "IX_t" \o Str(i),
     is_unique |-> unique, cols |-> [j \in 1..n |-> "k" \o Str(j)]]

\* the column counts of up to MaxKeys keys
KeyShapes == UNION {[1..m -> 1..MaxKeyCols] : m \in 0..MaxKeys}

\* the databases of the model: primary keys and indexes over the same tables and
\* columns, every other index unique
KeyCatalogs ==
    { [pks |-> [i \in 1..Len(ps) |-> PkObject(i, ps[i])],
       fks |-> [i \in 1..Len(fs) |-> FkObject(i, fs[i])],
       indexes |-> [i \in 1..Len(ps) |-> IndexObject(i, ps[i], (i % 2 = 1) = odd)]] :
        <<ps, fs, odd>> \in KeyShapes \X KeyShapes \X BOOLEAN }

KeySteps == {"primary_keys", "foreign_keys", "indexes"}

kvars == <<k_catalog, k_pc, k_files, k_counts>>

KeysInit ==
    /\ k_catalog \in KeyCatalogs
    /\ k_pc = "primary_keys"
    /\ k_files = [m \in KeySteps |-> ""]
    /\ k_counts = [m \in KeySteps |-> 0]

\* lines 139-175: extract_primary_keys
KeysExtractPrimaryKeys ==
    /\ k_pc = "primary_keys"
    /\ k_files' = [k_files EXCEPT !["primary_keys"] = extract_primary_keys(PkQuery(k_catalog.pks)).content]
    /\ k_counts' = [k_counts EXCEPT !["primary_keys"] = extract_primary_keys(PkQuery(k_catalog.pks)).count]
    /\ k_pc' = "foreign_keys"
    /\ UNCHANGED k_catalog

\* lines 177-218: extract_foreign_keys
KeysExtractForeignKeys ==
    /\ k_pc = "foreign_keys"
    /\ k_files' = [k_files EXCEPT !["foreign_keys"] = extract_foreign_keys(FkQuery(k_catalog.fks)).content]
    /\ k_counts' = [k_counts EXCEPT !["foreign_keys"] = extract_foreign_keys(FkQuery(k_catalog.fks)).count]
    /\ k_pc' = "indexes"
    /\ UNCHANGED k_catalog

\* lines 251-293: extract_indexes
KeysExtractIndexes ==
    /\ k_pc = "indexes"
    /\ k_files' = [k_files EXCEPT !["indexes"] = extract_indexes(IndexQuery(k_catalog.indexes)).content]
    /\ k_counts' = [k_counts EXCEPT !["indexes"] = extract_indexes(IndexQuery(k_catalog.indexes)).count]
    /\ k_pc' = "done"
    /\ UNCHANGED k_catalog

\* the three methods of the third specification at rest
KeysIdle ==
    /\ k_catalog = [pks |-> <<>>, fks |-> <<>>, indexes |-> <<>>]
    /\ k_pc = "idle"
    /\ k_files = [m \in KeySteps |-> ""]
    /\ k_counts = [m \in KeySteps |-> 0]

\* ------------------------------------------------------------------------
\* VannaTrainer.parse_example_file
\* ------------------------------------------------------------------------

\* the characters str.strip() removes
Whitespace == {" ", "\t", "\n", "\r", "\f"}

CharAt(s, i) == SubSeq(s, i, i)

Min(S) == CHOOSE x \in S : \A y \in S : x <= y
Max(S) == CHOOSE x \in S : \A y \in S : x >= y

\* str.strip()
Strip(s) ==
    LET keep == {i \in 1..Len(s) : CharAt(s, i) \notin Whitespace}
    IN  IF keep = {} THEN "" ELSE SubSeq(s, Min(keep), Max(keep))

\* s[n:]
From(s, n) == SubSeq(s, n + 1, Len(s))

\* s.split(sep) for a separator of one character
Split(s, sep) ==
    LET cuts == {i \in 1..Len(s) : CharAt(s, i) = sep}
        n == Cardinality(cuts) + 1
        Cut(k) == CHOOSE i \in cuts : Cardinality({j \in cuts : j < i}) = k - 1
    IN  [k \in 1..n |->
            SubSeq(s, IF k = 1 THEN 1 ELSE Cut(k - 1) + 1,
                      IF k = n THEN Len(s) ELSE Cut(k) - 1)]

\* lines 142-153 with line[2:] and line[4:] not stripped
ParseLine_nostrip(st, raw) ==
    LET line == Strip(raw)
    IN  IF StartsWith(line, "Q:")
        THEN [st EXCEPT !.question = Some(From(line, 2))]
        ELSE IF StartsWith(line, "SQL:")
        THEN LET sql == Some(From(line, 4))
             IN  IF TruthyStr(st.question) /\ TruthyStr(sql)
                 THEN [question |-> None, sql |-> None,
                       examples |-> Append(st.examples,
                                           [question |-> Val(st.question), sql |-> Val(sql)])]
                 ELSE [st EXCEPT !.sql = sql]
        ELSE st

\* lines 142-153 with a Q: line that leaves a pending question in place
ParseLine_keepfirst(st, raw) ==
    LET line == Strip(raw)
    IN  IF StartsWith(line, "Q:")
        THEN IF TruthyStr(st.question)
             THEN st
             ELSE [st EXCEPT !.question = Some(Strip(From(line, 2)))]
        ELSE IF StartsWith(line, "SQL:")
        THEN LET sql == Some(Strip(From(line, 4)))
             IN  IF TruthyStr(st.question) /\ TruthyStr(sql)
                 THEN [question |-> None, sql |-> None,
                       examples |-> Append(st.examples,
                                           [question |-> Val(st.question), sql |-> Val(sql)])]
                 ELSE [st EXCEPT !.sql = sql]
        ELSE st

\* lines 142-153 with the pending question kept after a pair is committed
ParseLine_noclear(st, raw) ==
    LET line == Strip(raw)
    IN  IF StartsWith(line, "Q:")
        THEN [st EXCEPT !.question = Some(Strip(From(line, 2)))]
        ELSE IF StartsWith(line, "SQL:")
        THEN LET sql == Some(Strip(From(line, 4)))
             IN  IF TruthyStr(st.question) /\ TruthyStr(sql)
                 THEN [question |-> st.question, sql |-> None,
                       examples |-> Append(st.examples,
                                           [question |-> Val(st.question), sql |-> Val(sql)])]
                 ELSE [st EXCEPT !.sql = sql]
        ELSE st

\* lines 142-153: the body of the loop over the lines, on the locals
\* current_question, current_sql and examples
ParseLine(st, raw) ==
    LET line == Strip(raw)
    IN  IF StartsWith(line, "Q:")
        THEN [st EXCEPT !.question = Some(Strip(From(line, 2)))]
        ELSE IF StartsWith(line, "SQL:")
        THEN LET sql == Some(Strip(From(line, 4)))
             IN  IF TruthyStr(st.question) /\ TruthyStr(sql)
                 THEN [question |-> None, sql |-> None,
                       examples |-> Append(st.examples,
                                           [question |-> Val(st.question), sql |-> Val(sql)])]
                 ELSE [st EXCEPT !.sql = sql]
        ELSE st

RECURSIVE ParseLines(_, _)
\* lines 141-153: the loop over the lines
ParseLines(st, lines) ==
    IF lines = <<>> THEN st ELSE ParseLines(ParseLine(st, Head(lines)), Tail(lines))

\* lines 136-155: parse_example_file
parse_example_file(content) ==
    ParseLines([question |-> None, sql |-> None, examples |-> <<>>], Split(content, "\n")).examples

\* largest number of question/SQL pairs in an example file written in the expected format
MaxPairs == 2

\* largest number of lines in an example file written freely
MaxLines == 3

QuestionLines == {"Q: a?", "  Q:c ?\t"}
SqlLines == {"SQL: b;", "\tSQL:  d; \r"}
Gaps == {<<>>, <<"">>, <<"  ", "">>}

RECURSIVE Flatten(_)
Flatten(seqs) == IF seqs = <<>> THEN <<>> ELSE Head(seqs) \o Flatten(Tail(seqs))

\* files in the expected format: pairs of a Q: and a SQL: line, blank lines between
PairedInputs ==
    { Join("\n", Flatten([i \in 1..n |-> gs[i] \o <<qs[i], ss[i]>>])) :
        <<n, gs, qs, ss>> \in
            UNION { {m} \X [1..m -> Gaps] \X [1..m -> QuestionLines] \X [1..m -> SqlLines]
                    : m \in 0..MaxPairs } }

FreeLines == {"Q: a?", "Q: c?", "SQL: b;", "SQL: d;", "", "note", "Q:", "SQL:"}

\* files of any lines
FreeInputs == { Join("\n", ls) : ls \in UNION {[1..m -> FreeLines] : m \in 0..MaxLines} }

ExampleInputs == PairedInputs \cup FreeInputs

pvars == <<p_content, p_lines, p_i, p_line, p_current_question, p_current_sql, p_examples, p_pc>>

\* lines 136-139: examples = [], the lines are split, nothing is pending
ParseInit ==
    /\ p_content \in ExampleInputs
    /\ p_lines = Split(p_content, "\n")
    /\ p_i = 0
    /\ p_line = ""
    /\ p_current_question = None
    /\ p_current_sql = None
    /\ p_examples = <<>>
    /\ p_pc = "loop"

\* lines 141-153: one iteration of the loop over the lines
ParseLineStep ==
    /\ p_pc = "loop"
    /\ p_i < Len(p_lines)
    /\ LET st == ParseLine([question |-> p_current_question, sql |-> p_current_sql,
                            examples |-> p_examples], p_lines[p_i + 1])
       IN  /\ p_current_question' = st.question
           /\ p_current_sql' = st.sql
           /\ p_examples' = st.examples
    /\ p_line' = Strip(p_lines[p_i + 1])
    /\ p_i' = p_i + 1
    /\ UNCHANGED <<p_content, p_lines, p_pc>>

\* line 155: return examples
ParseReturn ==
    /\ p_pc = "loop"
    /\ p_i = Len(p_lines)
    /\ p_pc' = "done"
    /\ UNCHANGED <<p_content, p_lines, p_i, p_line, p_current_question, p_current_sql, p_examples>>

\* parse_example_file of the fourth specification at rest
ParseIdle ==
    /\ p_content = ""
    /\ p_lines = <<>>
    /\ p_i = 0
    /\ p_line = ""
    /\ p_current_question = None
    /\ p_current_sql = None
    /\ p_examples = <<>>
    /\ p_pc = "idle"

\* ------------------------------------------------------------------------
\* VannaTrainer: the files under data/ and how their content is extracted
\* ------------------------------------------------------------------------

\* str.lower() on one character
LowerChar(c) ==
    IF \E i \in 1..Len(UpperLetters) : SubSeq(UpperLetters, i, i) = c
    THEN LET i == CHOOSE j \in 1..Len(UpperLetters) : SubSeq(UpperLetters, j, j) = c
         IN  SubSeq(LowerLetters, i, i)
    ELSE c

RECURSIVE Lower(_)
\* str.lower()
Lower(s) == IF s = "" THEN "" ELSE LowerChar(SubSeq(s, 1, 1)) \o Lower(Tail(s))

EndsWith(s, p) == Len(s) >= Len(p) /\ SubSeq(s, Len(s) - Len(p) + 1, Len(s)) = p

\* Path.suffix: the name from its last dot on, "" when the name has no dot
\* after its first character
PathSuffix(name) ==
    LET dots == {i \in 2..Len(name) : CharAt(name, i) = "."}
    IN  IF dots = {} THEN "" ELSE SubSeq(name, Max(dots), Len(name))

\* the entries of a directory: text files, PDF files with their pages, files
\* that cannot be opened or decoded, and subdirectories with entries of their own
TextFile(name, text) ==
    [name |-> name, kind |-> "text", text |-> text, pages |-> <<>>, children |-> <<>>]
PdfFile(name, pages) ==
    [name |-> name, kind |-> "pdf", text |-> "", pages |-> pages, children |-> <<>>]
BrokenFile(name) ==
    [name |-> name, kind |-> "broken", text |-> "", pages |-> <<>>, children |-> <<>>]
SubDirectory(name, children) ==
    [name |-> name, kind |-> "dir", text |-> "", pages |-> <<>>, children |-> children]

RECURSIVE PdfText(_)
\* lines 43-45: text += page.extract_text() + "\n" over the pages
PdfText(pages) == IF pages = <<>> THEN "" ELSE Head(pages) \o "\n" \o PdfText(Tail(pages))

\* lines 38-49: the text of the pages, stripped; "" when the file cannot be read as a PDF
extract_text_from_pdf(file) ==
    IF file.kind = "pdf" THEN Strip(PdfText(file.pages)) ELSE ""

\* lines 51-58: the content, stripped; "" when the file cannot be opened or decoded
read_text_file(file) ==
    IF file.kind = "text" THEN Strip(file.text) ELSE ""

\* lines 60-68
extract_file_content(file) ==
    IF Lower(PathSuffix(file.name)) = ".pdf"
    THEN extract_text_from_pdf(file)
    ELSE IF Lower(PathSuffix(file.name)) \in {".txt", ".md", ".sql"}
    THEN read_text_file(file)
    ELSE ""

\* line 219
file_patterns == <<"*.pdf", "*.txt", "*.md", "*.sql">>

\* Path.glob with a pattern "*<ending>": the entries of the directory itself
\* whose name ends with the ending, in directory order
Glob(listing, pattern) ==
    LET Matches(entry) == EndsWith(entry.name, From(pattern, 1))
    IN  SelectSeq(listing, Matches)

RECURSIVE GlobAll(_, _)
\* lines 220-222: files.extend(dir_path.glob(pattern)) over the patterns
GlobAll(listing, patterns) ==
    IF patterns = <<>> THEN <<>>
    ELSE Glob(listing, Head(patterns)) \o GlobAll(listing, Tail(patterns))

\* ------------------------------------------------------------------------
\* VannaTrainer: the training calls
\* ------------------------------------------------------------------------

\* what requests.post produces: a response with a status code and a body, or
\* an exception.  A body is a JSON object (with or without a status member),
\* JSON of another type, or text that is not JSON.
JsonObject(status) == [json |-> "object", status |-> status]
JsonArray == [json |-> "array", status |-> None]
NotJson == [json |-> "invalid", status |-> None]

Response(code, body) == [kind |-> "response", status_code |-> code, body |-> body]
RequestException(name) == [kind |-> name, status_code |-> 0, body |-> NotJson]

Responses ==
    { Response(200, b) : b \in { JsonObject(Some("success")), JsonObject(Some("error")),
                                 JsonObject(None), JsonArray, NotJson } }
    \cup { Response(500, JsonObject(Some("success"))), Response(404, NotJson) }
    \cup { RequestException("Timeout"), RequestException("ConnectionError") }

NoResponse == [kind |-> "none", status_code |-> 0, body |-> NotJson]

\* how a statement ends: it returns a value or raises
Returns(v) == [raised |-> FALSE, value |-> v]
Raises == [raised |-> TRUE, value |-> FALSE]

\* response.json() followed by result.get("status") == "success": json()
\* raises on text that is not JSON, get is missing on a value that is no object
StatusIsSuccess(resp) ==
    IF resp.body.json # "object" THEN Raises
    ELSE Returns(resp.body.status = Some("success"))

\* lines 74-96
train_documentation(resp) ==
    LET try == IF resp.kind # "response" THEN Raises
               ELSE IF resp.status_code = 200 THEN StatusIsSuccess(resp)
               ELSE Returns(FALSE)
    IN  IF try.raised THEN Returns(FALSE) ELSE try

\* lines 102-124 with the status member of the body not looked at
train_ddl_codeonly(resp) ==
    LET try == IF resp.kind # "response" THEN Raises
               ELSE IF resp.status_code = 200 THEN Returns(TRUE)
               ELSE Returns(FALSE)
    IN  IF try.raised THEN Returns(FALSE) ELSE try

\* lines 102-124
train_ddl(resp) ==
    LET try == IF resp.kind # "response" THEN Raises
               ELSE IF resp.status_code = 200 THEN StatusIsSuccess(resp)
               ELSE Returns(FALSE)
    IN  IF try.raised THEN Returns(FALSE) ELSE try

\* lines 165-183: one example of train_examples; the value tells whether
\* success_count is incremented
train_example(resp) ==
    LET try == IF resp.kind # "response" THEN Raises
               ELSE IF resp.status_code = 200 THEN StatusIsSuccess(resp)
               ELSE Returns(FALSE)
    IN  IF try.raised THEN Returns(FALSE) ELSE try

\* lines 190-207
auto_train(resp) ==
    LET try == IF resp.kind # "response" THEN Raises
               ELSE IF resp.status_code = 200 THEN StatusIsSuccess(resp)
               ELSE Returns(FALSE)
    IN  IF try.raised THEN Returns(FALSE) ELSE try

\* lines 162-183 with the loop left at the first example that fails
NextExample_break(e, n, trained) == IF trained THEN e + 1 ELSE n

\* lines 162-183: the loop goes on to the next example whatever became of this one
NextExample(e, n, trained) == e + 1

\* line 185
train_examples_result(success_count) == success_count > 0

\* lines 244-245 with a failure that resets the count
CountSuccess_reset(success_count, success) == IF success THEN success_count + 1 ELSE 0

\* lines 244-245: if success: success_count += 1
CountSuccess(success_count, success) == IF success THEN success_count + 1 ELSE success_count

\* lines 237-242 with the example files sent as documentation
TrainingOperation_nodispatch(training_type) ==
    IF training_type = "ddl" THEN "train_ddl" ELSE "train_documentation"

\* lines 237-242: the training operation of a directory classification
TrainingOperation(training_type) ==
    IF training_type = "ddl" THEN "train_ddl"
    ELSE IF training_type = "examples" THEN "train_examples"
    ELSE "train_documentation"

\* the URL path and the JSON body of the POST of a training operation
Endpoint(operation) ==
    IF operation = "train_ddl" THEN "/train/ddl"
    ELSE IF operation = "train_documentation" THEN "/train/documentation"
    ELSE IF operation = "train_examples" THEN "/train/question-sql"
    ELSE "/train/auto"

ContentJson(operation, content) ==
    IF operation = "train_ddl" THEN [ddl |-> content] ELSE [documentation |-> content]

\* the four directories of run_training, in the order of its calls
Phases == << [dir |-> "ddl", training_type |-> "ddl"],
             [dir |-> "docs", training_type |-> "documentation"],
             [dir |-> "general", training_type |-> "documentation"],
             [dir |-> "examples", training_type |-> "examples"] >>

\* lines 211-226 with the missing directory listed all the same
process_directory_start_nocheck(dir) ==
    IF IsNone(dir)
    THEN [raised |-> TRUE, returned |-> FALSE, files |-> <<>>, printed |-> <<>>]
    ELSE LET found == GlobAll(Val(dir), file_patterns)
         IN  IF found = <<>>
             THEN [raised |-> FALSE, returned |-> TRUE, files |-> <<>>,
                   printed |-> <<"   No files found">>]
             ELSE [raised |-> FALSE, returned |-> FALSE, files |-> found, printed |-> <<>>]

\* lines 211-226: process_directory up to its loop; it returns 0 at once for a
\* directory that does not exist or holds no file of the four patterns
process_directory_start(dir) ==
    IF IsNone(dir)
    THEN [raised |-> FALSE, returned |-> TRUE, files |-> <<>>,
          printed |-> <<"Directory does not exist, skipping...">>]
    ELSE LET found == GlobAll(Val(dir), file_patterns)
         IN  IF found = <<>>
             THEN [raised |-> FALSE, returned |-> TRUE, files |-> <<>>,
                   printed |-> <<"   No files found">>]
             ELSE [raised |-> FALSE, returned |-> FALSE, files |-> found, printed |-> <<>>]

\* lines 272-298 with the remaining directories left out once one trained nothing
AfterPhase_stop(phase, count) == IF count = 0 THEN Len(Phases) + 1 ELSE phase + 1

\* lines 272-298: the directory run_training turns to after one that returned count
AfterPhase(phase, count) == phase + 1

\* the marks of the summary (a check mark and a cross in the source)
CheckMark == "[v]"
CrossMark == "[x]"

\* lines 300-306 without the line of the total
summary_lines_nototal(total_success, ddl_success, docs_success, general_success, examples_success) ==
    << "Training Summary:",
       "   Auto-training: " \o (IF total_success > 0 THEN CheckMark ELSE CrossMark),
       "   DDL files: " \o Str(ddl_success) \o " trained",
       "   Documentation files: " \o Str(docs_success + general_success) \o " trained",
       "   Example files: " \o Str(examples_success) \o " trained" >>

\* lines 300-306: the summary run_training prints
summary_lines(total_success, ddl_success, docs_success, general_success, examples_success) ==
    << "Training Summary:",
       "   Auto-training: " \o (IF total_success > 0 THEN CheckMark ELSE CrossMark),
       "   DDL files: " \o Str(ddl_success) \o " trained",
       "   Documentation files: " \o Str(docs_success + general_success) \o " trained",
       "   Example files: " \o Str(examples_success) \o " trained",
       "   Total successful operations: " \o Str(total_success) >>

\* lines 308-311
closing_line(total_success) ==
    IF total_success > 0
    THEN "Training completed! Your Vanna AI model has been updated."
    ELSE "No training data was successfully processed."

\* ------------------------------------------------------------------------
\* VannaTrainer.run_training, step by step
\* ------------------------------------------------------------------------

\* what a directory under data/ can be: missing; holding nothing the four
\* patterns match (a .csv file, a subdirectory with a .sql file in it); holding
\* one file with content among a blank file, a PDF that cannot be read and a
\* file named ".md"; holding a text file of two examples and a PDF of two pages
DirChoices ==
    << None,
       Some(<< TextFile("data.csv", "a,b"),
               SubDirectory("archive", <<TextFile("tables.sql", "CREATE TABLE u (id INT);")>>) >>),
       Some(<< TextFile("tables.sql", "\nCREATE TABLE t (id INT);\n"),
               TextFile("blank.txt", " \n\t"),
               BrokenFile("scan.pdf"),
               TextFile(".md", "hidden") >>),
       Some(<< TextFile("queries.txt", "\nQ: a?\nSQL: b;\n\nQ: c?\nSQL: d;\n"),
               PdfFile("manual.pdf", <<"OTIF ", "score">>),
               TextFile("data.csv", "a,b") >>) >>

DirNames == {Phases[n].dir : n \in 1..Len(Phases)}
PhaseOf(dir) == CHOOSE n \in 1..Len(Phases) : Phases[n].dir = dir

\* the four directories all alike, or one of each kind in turn
DirAssignments ==
    { [d \in DirNames |-> DirChoices[c]] : c \in 1..Len(DirChoices) }
    \cup { [d \in DirNames |-> DirChoices[((PhaseOf(d) + s) % Len(DirChoices)) + 1]]
           : s \in 0..(Len(DirChoices) - 1) }

\* the data directory: missing, or present with its four directories
TrainerInputs ==
    { [data |-> FALSE, dirs |-> [d \in DirNames |-> None]] }
    \cup { [data |-> TRUE, dirs |-> dirs] : dirs \in DirAssignments }

NoCounts == [d \in DirNames |-> None]
NoCall == [operation |-> "", dir |-> "", file |-> "", index |-> 0, success |-> FALSE]

rvars == <<r_fs, r_pc, r_phase, r_files, r_k, r_success_count, r_examples, r_e,
           r_ex_success_count, r_auto, r_counts, r_total_success, r_posts, r_reads, r_processed,
           r_resp, r_call, r_trained, r_phases, r_printed>>

\* the process before run_training is called
TrainerInit ==
    /\ r_fs \in TrainerInputs
    /\ r_pc = "start"
    /\ r_phase = 0
    /\ r_files = <<>>
    /\ r_k = 0
    /\ r_success_count = 0
    /\ r_examples = <<>>
    /\ r_e = 0
    /\ r_ex_success_count = 0
    /\ r_auto = None
    /\ r_counts = NoCounts
    /\ r_total_success = 0
    /\ r_posts = <<>>
    /\ r_reads = <<>>
    /\ r_processed = <<>>
    /\ r_resp = NoResponse
    /\ r_call = NoCall
    /\ r_trained = <<>>
    /\ r_phases = <<>>
    /\ r_printed = <<>>

\* the POST a training call issues, with what was recorded for it
Post(operation, json, file, index, success) ==
    [url |-> Endpoint(operation), json |-> json, dir |-> IF r_phase = 0 THEN "" ELSE Phases[r_phase].dir,
     file |-> file, index |-> index, success |-> success]

Call(operation, file, index, success) ==
    [operation |-> operation, dir |-> IF r_phase = 0 THEN "" ELSE Phases[r_phase].dir,
     file |-> file, index |-> index, success |-> success]

\* lines 251-264: the check of the data directory, total_success = 0
RunTrainingStart ==
    /\ r_pc = "start"
    /\ IF ~r_fs.data
       THEN /\ r_printed' = <<"Data directory 'data' not found!">>
            /\ r_pc' = "done"
       ELSE /\ r_printed' = <<>>
            /\ r_pc' = "auto"
    /\ UNCHANGED <<r_fs, r_phase, r_files, r_k, r_success_count, r_examples, r_e,
                   r_ex_success_count, r_auto, r_counts, r_total_success, r_posts,
                   r_reads, r_processed, r_resp, r_call, r_trained, r_phases>>

\* the position after the directory r_phase has returned count
Turn(count) ==
    LET next == AfterPhase(r_phase, count)
    IN  /\ r_phase' = next
        /\ r_pc' = IF next > Len(Phases) THEN "summary" ELSE "enter"

\* lines 266-270 and 187-207: auto_train and its count
AutoTrainStep(resp) ==
    /\ r_pc = "auto"
    /\ r_resp' = resp
    /\ r_phases' = Append(r_phases, "auto")
    /\ LET out == auto_train(resp)
       IN  IF out.raised
           THEN /\ r_pc' = "raised"
                /\ UNCHANGED <<r_phase, r_auto, r_total_success, r_posts, r_call>>
           ELSE /\ r_posts' = Append(r_posts, Post("auto_train", None, "", 0, out.value))
                /\ r_call' = Call("auto_train", "", 0, out.value)
                /\ r_auto' = Some(out.value)
                /\ r_total_success' = IF out.value THEN r_total_success + 1 ELSE r_total_success
                /\ r_phase' = 1
                /\ r_pc' = "enter"
    /\ UNCHANGED <<r_fs, r_files, r_k, r_success_count, r_examples, r_e,
                   r_ex_success_count, r_counts, r_reads, r_processed, r_trained, r_printed>>

\* lines 272-298 and 211-226: process_directory is called and reaches its loop
\* or returns 0 at once
EnterDirectory ==
    /\ r_pc = "enter"
    /\ r_phases' = Append(r_phases, Phases[r_phase].dir)
    /\ LET start == process_directory_start(r_fs.dirs[Phases[r_phase].dir])
       IN  IF start.raised
           THEN /\ r_pc' = "raised"
                /\ UNCHANGED <<r_phase, r_files, r_k, r_success_count, r_counts, r_printed>>
           ELSE IF start.returned
           THEN /\ r_counts' = [r_counts EXCEPT ![Phases[r_phase].dir] = Some(0)]
                /\ r_printed' = r_printed \o start.printed
                /\ Turn(0)
                /\ UNCHANGED <<r_files, r_k, r_success_count>>
           ELSE /\ r_files' = start.files
                /\ r_k' = 0
                /\ r_success_count' = 0
                /\ r_pc' = "file"
                /\ UNCHANGED <<r_phase, r_counts, r_printed>>
    /\ UNCHANGED <<r_fs, r_examples, r_e, r_ex_success_count, r_auto, r_total_success,
                   r_posts, r_reads, r_processed, r_resp, r_call, r_trained>>

\* the file is opened when its suffix is one extract_file_content knows
Opens(file) == Lower(PathSuffix(file.name)) \in {".pdf", ".txt", ".md", ".sql"}

\* lines 228-245: one file of the loop of process_directory; an example file
\* is parsed here and its examples are sent one by one afterwards
ProcessFile(resp) ==
    /\ r_pc = "file"
    /\ r_k < Len(r_files)
    /\ LET file == r_files[r_k + 1]
           content == extract_file_content(file)
           operation == TrainingOperation(Phases[r_phase].training_type)
           out == IF operation = "train_ddl" THEN train_ddl(resp) ELSE train_documentation(resp)
       IN  /\ r_processed' = Append(r_processed, [dir |-> Phases[r_phase].dir, file |-> file.name])
           /\ r_reads' = IF Opens(file)
                         THEN Append(r_reads, [dir |-> Phases[r_phase].dir, file |-> file.name])
                         ELSE r_reads
           /\ IF content = ""
              THEN /\ r_k' = r_k + 1
                   /\ UNCHANGED <<r_pc, r_success_count, r_examples, r_e, r_ex_success_count,
                                  r_posts, r_resp, r_call, r_trained>>
              ELSE IF operation = "train_examples"
              THEN /\ r_examples' = parse_example_file(content)
                   /\ r_e' = 0
                   /\ r_ex_success_count' = 0
                   /\ r_pc' = "example"
                   /\ UNCHANGED <<r_k, r_success_count, r_posts, r_resp, r_call, r_trained>>
              ELSE /\ r_resp' = resp
                   /\ IF out.raised
                      THEN /\ r_pc' = "raised"
                           /\ UNCHANGED <<r_k, r_success_count, r_posts, r_call, r_trained>>
                      ELSE /\ r_posts' = Append(r_posts, Post(operation, ContentJson(operation, content),
                                                              file.name, 0, out.value))
                           /\ r_call' = Call(operation, file.name, 0, out.value)
                           /\ r_trained' = Append(r_trained, Call(operation, file.name, 0, out.value))
                           /\ r_success_count' = CountSuccess(r_success_count, out.value)
                           /\ r_k' = r_k + 1
                           /\ UNCHANGED r_pc
                   /\ UNCHANGED <<r_examples, r_e, r_ex_success_count>>
    /\ UNCHANGED <<r_fs, r_phase, r_files, r_auto, r_counts, r_total_success, r_phases, r_printed>>

\* lines 162-183: one example of the loop of train_examples
ExamplePost(resp) ==
    /\ r_pc = "example"
    /\ r_e < Len(r_examples)
    /\ r_resp' = resp
    /\ LET out == train_example(resp)
           file == r_files[r_k + 1].name
       IN  IF out.raised
           THEN /\ r_pc' = "raised"
                /\ UNCHANGED <<r_e, r_ex_success_count, r_posts, r_call>>
           ELSE /\ r_posts' = Append(r_posts, Post("train_examples", r_examples[r_e + 1], file,
                                                   r_e + 1, out.value))
                /\ r_call' = Call("train_example", file, r_e + 1, out.value)
                /\ r_ex_success_count' = IF out.value THEN r_ex_success_count + 1
                                         ELSE r_ex_success_count
                /\ r_e' = NextExample(r_e, Len(r_examples), out.value)
                /\ UNCHANGED r_pc
    /\ UNCHANGED <<r_fs, r_phase, r_files, r_k, r_success_count, r_examples, r_auto, r_counts,
                   r_total_success, r_reads, r_processed, r_trained, r_phases, r_printed>>

\* lines 184-185 and 244-245: train_examples returns and its file is counted
ExamplesReturn ==
    /\ r_pc = "example"
    /\ r_e = Len(r_examples)
    /\ LET success == train_examples_result(r_ex_success_count)
           file == r_files[r_k + 1].name
       IN  /\ r_trained' = Append(r_trained, Call("train_examples", file, 0, success))
           /\ r_success_count' = CountSuccess(r_success_count, success)
    /\ r_k' = r_k + 1
    /\ r_pc' = "file"
    /\ UNCHANGED <<r_fs, r_phase, r_files, r_examples, r_e, r_ex_success_count, r_auto,
                   r_counts, r_total_success, r_posts, r_reads, r_processed, r_resp, r_call, r_phases,
                   r_printed>>

\* line 247 and lines 272-298: process_directory returns success_count, which
\* run_training keeps and adds to total_success
LeaveDirectory ==
    /\ r_pc = "file"
    /\ r_k = Len(r_files)
    /\ r_counts' = [r_counts EXCEPT ![Phases[r_phase].dir] = Some(r_success_count)]
    /\ r_total_success' = r_total_success + r_success_count
    /\ Turn(r_success_count)
    /\ UNCHANGED <<r_fs, r_files, r_k, r_success_count, r_examples, r_e, r_ex_success_count,
                   r_auto, r_posts, r_reads, r_processed, r_resp, r_call, r_trained, r_phases, r_printed>>

\* the count run_training holds for a directory, 0 for one it left out
CountOf(dir) == IF IsNone(r_counts[dir]) THEN 0 ELSE Val(r_counts[dir])

\* lines 300-311: the summary and the closing line
Summary ==
    /\ r_pc = "summary"
    /\ r_printed' = r_printed
                    \o summary_lines(r_total_success, CountOf("ddl"), CountOf("docs"),
                                     CountOf("general"), CountOf("examples"))
                    \o <<closing_line(r_total_success)>>
    /\ r_pc' = "done"
    /\ UNCHANGED <<r_fs, r_phase, r_files, r_k, r_success_count, r_examples, r_e,
                   r_ex_success_count, r_auto, r_counts, r_total_success, r_posts, r_reads, r_processed,
                   r_resp, r_call, r_trained, r_phases>>

\* run_training at rest, for the specifications of the other functions
TrainerIdle ==
    /\ r_fs = [data |-> FALSE, dirs |-> NoCounts]
    /\ r_pc = "idle"
    /\ r_phase = 0
    /\ r_files = <<>>
    /\ r_k = 0
    /\ r_success_count = 0
    /\ r_examples = <<>>
    /\ r_e = 0
    /\ r_ex_success_count = 0
    /\ r_auto = None
    /\ r_counts = NoCounts
    /\ r_total_success = 0
    /\ r_posts = <<>>
    /\ r_reads = <<>>
    /\ r_processed = <<>>
    /\ r_resp = NoResponse
    /\ r_call = NoCall
    /\ r_trained = <<>>
    /\ r_phases = <<>>
    /\ r_printed = <<>>

\* ------------------------------------------------------------------------
\* create_summary_file
\* ------------------------------------------------------------------------

\* SQLSERVER_DB and SQLSERVER_HOST of the environment (lines 36-37)
Database == "analytics"
Host == "sqlhost"

\* counts.get(key, 0)
Get(cnts, key) == IF key \in DOMAIN cnts THEN cnts[key] ELSE 0

\* counts[key] = value
Put(cnts, key, value) ==
    [k \in DOMAIN cnts \cup {key} |-> IF k = key THEN value ELSE cnts[k]]

\* os.popen('date /t').read().strip(): cmd.exe prints the date; a POSIX shell
\* rejects the argument and prints nothing on standard output
DateT(plat, clk) == IF plat = "windows" THEN "Mon 11/02/2026" ELSE ""

\* os.popen('time /t').read().strip(): cmd.exe prints the time of day, to the minute
TimeT(plat, clk) == IF plat = "windows" THEN "07:0" \o Str(clk) \o " AM" ELSE ""

\* lines 330-356: summary_content
summary_content(cnts, date, time) ==
    "-- Database Schema Summary\n"
    \o "-- Database: " \o Database \o "\n"
    \o "-- Server: " \o Host \o "\n"
    \o "-- Extracted on: " \o date \o " " \o time \o "\n"
    \o "\n/*\nSchema Summary:\n"
    \o "- Tables: " \o Str(Get(cnts, "tables")) \o "\n"
    \o "- Primary Keys: " \o Str(Get(cnts, "primary_keys")) \o "\n"
    \o "- Foreign Keys: " \o Str(Get(cnts, "foreign_keys")) \o "\n"
    \o "- Views: " \o Str(Get(cnts, "views")) \o "\n"
    \o "- Indexes: " \o Str(Get(cnts, "indexes")) \o "\n"
    \o "- Stored Procedures: " \o Str(Get(cnts, "stored_procedures")) \o "\n"
    \o "\nFiles Generated:\n"
    \o "1. 01_tables.sql - Table definitions with columns and data types\n"
    \o "2. 02_primary_keys.sql - Primary key constraints\n"
    \o "3. 03_foreign_keys.sql - Foreign key relationships\n"
    \o "4. 04_views.sql - View definitions\n"
    \o "5. 05_indexes.sql - Index definitions\n"
    \o "6. 06_stored_procedures.sql - Stored procedure definitions\n"
    \o "\nUsage for Vanna AI Training:\n"
    \o "All these files will be automatically processed when you run:\n"
    \o "python train_from_files.py\n*/\n"

\* ------------------------------------------------------------------------
\* run_extraction
\* ------------------------------------------------------------------------

\* largest number of extractor runs in one behaviour
MaxRuns == 2

\* last minute the wall clock reaches
MaxClock == 1

\* the statements of the try body, lines 376-384, in program order
StepOrder == <<"tables", "primary_keys", "foreign_keys", "views", "indexes",
               "stored_procedures", "summary">>

StepIndex(step) == CHOOSE i \in 1..Len(StepOrder) : StepOrder[i] = step

\* lines 132, 170, 213, 244, 288, 321, 358: the file each step writes
FileOf(step) ==
    CASE step = "tables" -> "01_tables.sql"
      [] step = "primary_keys" -> "02_primary_keys.sql"
      [] step = "foreign_keys" -> "03_foreign_keys.sql"
      [] step = "views" -> "04_views.sql"
      [] step = "indexes" -> "05_indexes.sql"
      [] step = "stored_procedures" -> "06_stored_procedures.sql"
      [] step = "summary" -> "00_schema_summary.sql"

FileNames == {FileOf(StepOrder[i]) : i \in 1..Len(StepOrder)}

\* the database schemas of the model
EmptySchema ==
    [columns |-> <<>>, pks |-> <<>>, fks |-> <<>>, views |-> <<>>, indexes |-> <<>>, procs |-> <<>>]

OrdersSchema ==
    [columns |-> << Row(<<"dbo", "orders">>, 1, "int", None, Some(10), Some(0), "NO", None),
                    Row(<<"dbo", "orders">>, 2, "decimal", None, Some(10), Some(2), "YES", Some("((0))")) >>,
     pks |-> << [schema |-> "dbo", table_name |-> "orders", name |-> "PK_orders", cols |-> <<"c1">>] >>,
     fks |-> <<>>,
     views |-> << [schema |-> "dbo", name |-> "v_orders", definition |-> "CREATE VIEW v_orders AS SELECT c1 FROM orders"] >>,
     indexes |-> <<>>,
     procs |-> <<>>]

SalesSchema ==
    [columns |-> << Row(<<"dbo", "customers">>, 1, "int", None, Some(10), Some(0), "NO", None),
                    Row(<<"dbo", "customers">>, 2, "nvarchar", Some(-1), None, None, "YES", None),
                    Row(<<"dbo", "orders">>, 1, "int", None, Some(10), Some(0), "NO", None) >>,
     pks |-> << [schema |-> "dbo", table_name |-> "customers", name |-> "PK_customers", cols |-> <<"c1">>],
                [schema |-> "dbo", table_name |-> "orders", name |-> "PK_orders", cols |-> <<"c1">>] >>,
     fks |-> << [schema |-> "dbo", table_name |-> "orders", name |-> "FK_orders_customers",
                 cols |-> <<"c1">>, ref_schema |-> "dbo", ref_table |-> "customers", ref_cols |-> <<"c1">>] >>,
     views |-> <<>>,
     indexes |-> << [schema |-> "dbo", table_name |-> "customers", name |-> "IX_customers_c2",
                     is_unique |-> TRUE, cols |-> <<"c2", "c1">>] >>,
     procs |-> << [schema |-> "dbo", name |-> "p_purge", definition |-> "CREATE PROCEDURE p_purge AS DELETE FROM orders"] >>]

Catalogs == {EmptySchema, OrdersSchema, SalesSchema}

\* what a step renders from the catalog: the content of its file and its count
Rendered(cat, step) ==
    CASE step = "tables" -> extract_table_ddl(cat.columns)
      [] step = "primary_keys" -> extract_primary_keys(PkQuery(cat.pks))
      [] step = "foreign_keys" -> extract_foreign_keys(FkQuery(cat.fks))
      [] step = "views" -> extract_views(cat.views)
      [] step = "indexes" -> extract_indexes(IndexQuery(cat.indexes))
      [] step = "stored_procedures" -> extract_stored_procedures(cat.procs)

\* open(name, 'a'): the new content is added to the old
WriteFile_append(fs, name, content) ==
    [fs EXCEPT ![name] = IF IsNone(@) THEN Some(content) ELSE Some(Val(@) \o content)]

\* open(name, 'w') and f.write(content): the file holds exactly content
WriteFile(fs, name, content) == [fs EXCEPT ![name] = Some(content)]

\* connect_to_database returning True on every path
ConnectReturns_true(outcome) == TRUE

\* lines 53-60: the return value of connect_to_database
ConnectReturns(outcome) == outcome = "ok"

\* each step swallowing its own database error, so that the run goes on
AfterStep_continue(step, outcome) ==
    IF outcome = "io" THEN "except"
    ELSE IF step = "summary" THEN "report"
    ELSE StepOrder[StepIndex(step) + 1]

\* the views and the indexes statements exchanged
AfterStep_swapped(step, outcome) ==
    IF outcome # "ok" THEN "except"
    ELSE CASE step = "foreign_keys" -> "indexes"
           [] step = "indexes" -> "views"
           [] step = "views" -> "stored_procedures"
           [] step = "summary" -> "report"
           [] OTHER -> StepOrder[StepIndex(step) + 1]

\* lines 374-402: where control goes after a statement of the try body: to the
\* next statement when it returned, to the except clause when it raised
AfterStep(step, outcome) ==
    IF outcome # "ok" THEN "except"
    ELSE IF step = "summary" THEN "report"
    ELSE StepOrder[StepIndex(step) + 1]

\* conn.close() at the end of the try body instead of in a finally clause
AfterBlock_noFinally(block) == IF block = "report" THEN "finally" ELSE "done"

\* lines 401-405: the finally clause follows the try body and the except clause
AfterBlock(block) == "finally"

NoError == [step |-> "", kind |-> ""]
NoStamp == [date |-> "", time |-> ""]

xvars == <<catalog, platform, clock, files, pc, conn, connected, closes, counts, started,
           returned, error, caught, printed, filesAtStart, runs, prev, stamp>>

vars == <<xvars, tvars, kvars, pvars, rvars>>

ExtractorInit ==
    /\ catalog \in Catalogs
    /\ platform \in {"windows", "posix"}
    /\ clock = 0
    /\ files = [f \in FileNames |-> None]
    /\ pc = "idle"
    /\ conn = "none"
    /\ connected = FALSE
    /\ closes = 0
    /\ counts = <<>>
    /\ started = <<>>
    /\ returned = <<>>
    /\ error = NoError
    /\ caught = FALSE
    /\ printed = <<>>
    /\ filesAtStart = [f \in FileNames |-> None]
    /\ runs = 0
    /\ prev = [ok |-> FALSE, files |-> [f \in FileNames |-> None], catalog |-> EmptySchema,
               stamp |-> NoStamp]
    /\ stamp = NoStamp

\* lines 407-413 and 364-367: main() constructs a DDLExtractor and calls run_extraction
StartRun ==
    /\ pc = "idle"
    /\ runs < MaxRuns
    /\ runs' = runs + 1
    /\ pc' = "connect"
    /\ conn' = "none"
    /\ connected' = FALSE
    /\ closes' = 0
    /\ counts' = <<>>
    /\ started' = <<>>
    /\ returned' = <<>>
    /\ error' = NoError
    /\ caught' = FALSE
    /\ printed' = <<>>
    /\ filesAtStart' = files
    /\ stamp' = NoStamp
    /\ UNCHANGED <<catalog, platform, clock, files, prev>>

\* lines 51-60 and 369-372: connect_to_database and the early return
connect_to_database(outcome) ==
    /\ pc = "connect"
    /\ conn' = IF outcome = "connect_error" THEN "none" ELSE "open"
    /\ connected' = ConnectReturns(outcome)
    /\ printed' = Append(printed, IF outcome = "ok" THEN "Connected to database"
                                  ELSE "Failed to connect to database")
    /\ pc' = IF ConnectReturns(outcome) THEN StepOrder[1] ELSE "done"
    /\ UNCHANGED <<catalog, platform, clock, files, closes, counts, started, returned, error,
                   caught, filesAtStart, runs, prev, stamp>>

\* one extraction step called from the try body: the query raises ("db"), or
\* open() raises ("io"), or the file is written and the count returned
Step(step, outcome) ==
    /\ pc = step
    /\ started' = Append(started, step)
    /\ IF outcome = "ok"
       THEN /\ files' = WriteFile(files, FileOf(step), Rendered(catalog, step).content)
            /\ counts' = Put(counts, step, Rendered(catalog, step).count)
            /\ returned' = Append(returned, step)
            /\ error' = error
       ELSE /\ error' = [step |-> step, kind |-> outcome]
            /\ UNCHANGED <<files, counts, returned>>
    /\ pc' = AfterStep(step, outcome)
    /\ UNCHANGED <<catalog, platform, clock, conn, connected, closes, caught, printed,
                   filesAtStart, runs, prev, stamp>>

StepOutcomes == {"ok", "db", "io"}

\* lines 62-137 called at line 376
ExtractTableDdlStep == \E outcome \in StepOutcomes : Step("tables", outcome)

\* lines 139-175 called at line 377
ExtractPrimaryKeysStep == \E outcome \in StepOutcomes : Step("primary_keys", outcome)

\* lines 177-218 called at line 378
ExtractForeignKeysStep == \E outcome \in StepOutcomes : Step("foreign_keys", outcome)

\* lines 220-249 called at line 379
ExtractViewsStep == \E outcome \in StepOutcomes : Step("views", outcome)

\* lines 251-293 called at line 380
ExtractIndexesStep == \E outcome \in StepOutcomes : Step("indexes", outcome)

\* lines 295-326 called at line 381
ExtractStoredProceduresStep == \E outcome \in StepOutcomes : Step("stored_procedures", outcome)

\* lines 328-362 called at line 384: the clock is read, then the file is written
create_summary_file(outcome) ==
    /\ pc = "summary"
    /\ started' = Append(started, "summary")
    /\ stamp' = [date |-> DateT(platform, clock), time |-> TimeT(platform, clock)]
    /\ IF outcome = "ok"
       THEN /\ files' = WriteFile(files, FileOf("summary"),
                                  summary_content(counts, DateT(platform, clock), TimeT(platform, clock)))
            /\ returned' = Append(returned, "summary")
            /\ error' = error
       ELSE /\ error' = [step |-> "summary", kind |-> outcome]
            /\ UNCHANGED <<files, returned>>
    /\ pc' = AfterStep("summary", outcome)
    /\ UNCHANGED <<catalog, platform, clock, conn, connected, closes, counts, caught,
                   printed, filesAtStart, runs, prev>>

\* lines 386-399: the extraction summary is printed
Report ==
    /\ pc = "report"
    /\ printed' = Append(printed, "DDL extraction completed successfully")
    /\ pc' = AfterBlock("report")
    /\ UNCHANGED <<catalog, platform, clock, files, conn, connected, closes, counts, started,
                   returned, error, caught, filesAtStart, runs, prev, stamp>>

\* lines 401-402: except Exception
Except ==
    /\ pc = "except"
    /\ caught' = TRUE
    /\ printed' = Append(printed, "Error during extraction")
    /\ pc' = AfterBlock("except")
    /\ UNCHANGED <<catalog, platform, clock, files, conn, connected, closes, counts, started,
                   returned, error, filesAtStart, runs, prev, stamp>>

\* lines 403-405: finally
Finally ==
    /\ pc = "finally"
    /\ conn' = "closed"
    /\ closes' = closes + 1
    /\ printed' = Append(printed, "Database connection closed")
    /\ pc' = "done"
    /\ UNCHANGED <<catalog, platform, clock, files, connected, counts, started, returned, error,
                   caught, filesAtStart, runs, prev, stamp>>

\* run_extraction has returned and the process exits
EndRun ==
    /\ pc = "done"
    /\ pc' = "idle"
    /\ prev' = [ok |-> returned = StepOrder, files |-> files, catalog |-> catalog, stamp |-> stamp]
    /\ UNCHANGED <<catalog, platform, clock, files, conn, connected, closes, counts, started,
                   returned, error, caught, printed, filesAtStart, runs, stamp>>

\* between two runs the schema of the database is changed
AlterSchema ==
    /\ pc = "idle"
    /\ catalog' \in Catalogs \ {catalog}
    /\ UNCHANGED <<platform, clock, files, pc, conn, connected, closes, counts, started, returned,
                   error, caught, printed, filesAtStart, runs, prev, stamp>>

\* between two runs a minute passes
Tick ==
    /\ pc = "idle"
    /\ clock < MaxClock
    /\ clock' = clock + 1
    /\ UNCHANGED <<catalog, platform, files, pc, conn, connected, closes, counts, started, returned,
                   error, caught, printed, filesAtStart, runs, prev, stamp>>

\* the table extraction of the second specification at rest
TablesIdle ==
    /\ t_pc = "idle"
    /\ t_results = <<>>
    /\ t_i = 0
    /\ t_row = NoRow
    /\ t_col_def = ""
    /\ t_tables = <<>>
    /\ t_content = ""
    /\ t_ret = 0

Init == ExtractorInit /\ TablesIdle /\ KeysIdle /\ ParseIdle /\ TrainerIdle

Next ==
    \/ (StartRun /\ UNCHANGED <<tvars, kvars, pvars, rvars>>)
    \/ ((\E outcome \in {"ok", "connect_error", "cursor_error"} : connect_to_database(outcome)) /\ UNCHANGED <<tvars, kvars, pvars, rvars>>)
    \/ (ExtractTableDdlStep /\ UNCHANGED <<tvars, kvars, pvars, rvars>>)
    \/ (ExtractPrimaryKeysStep /\ UNCHANGED <<tvars, kvars, pvars, rvars>>)
    \/ (ExtractForeignKeysStep /\ UNCHANGED <<tvars, kvars, pvars, rvars>>)
    \/ (ExtractViewsStep /\ UNCHANGED <<tvars, kvars, pvars, rvars>>)
    \/ (ExtractIndexesStep /\ UNCHANGED <<tvars, kvars, pvars, rvars>>)
    \/ (ExtractStoredProceduresStep /\ UNCHANGED <<tvars, kvars, pvars, rvars>>)
    \/ ((\E outcome \in {"ok", "io"} : create_summary_file(outcome)) /\ UNCHANGED <<tvars, kvars, pvars, rvars>>)
    \/ (Report /\ UNCHANGED <<tvars, kvars, pvars, rvars>>)
    \/ (Except /\ UNCHANGED <<tvars, kvars, pvars, rvars>>)
    \/ (Finally /\ UNCHANGED <<tvars, kvars, pvars, rvars>>)
    \/ (EndRun /\ UNCHANGED <<tvars, kvars, pvars, rvars>>)
    \/ (AlterSchema /\ UNCHANGED <<tvars, kvars, pvars, rvars>>)
    \/ (Tick /\ UNCHANGED <<tvars, kvars, pvars, rvars>>)

Spec == Init /\ [][Next]_vars

\* ------------------------------------------------------------------------
\* properties of run_extraction
\* ------------------------------------------------------------------------

Range(seq) == {seq[i] : i \in 1..Len(seq)}

\* the positions of run_extraction between the connect and the return
RunningPcs == Range(StepOrder) \cup {"report", "except", "finally"}

\* connect_to_database reported a failure in this run
ConnectFailed == printed # <<>> /\ printed[1] = "Failed to connect to database"

\* C1: after a successful connect the steps are entered in the order tables,
\* primary keys, foreign keys, views, indexes, stored procedures, summary; a
\* step is entered only when every earlier step has returned, and the summary
\* only when the six extraction steps have returned
C1_FixedOrder ==
    /\ Len(started) <= Len(StepOrder)
    /\ \A i \in 1..Len(started) : started[i] = StepOrder[i]
    /\ \A i \in 1..Len(started) : \A j \in 1..(i - 1) : StepOrder[j] \in Range(returned)
    /\ (started # <<>> => connected)
    /\ ("summary" \in Range(started) =>
            \A j \in 1..(Len(StepOrder) - 1) : StepOrder[j] \in Range(returned))

\* a run in which all seven steps returned
C1_Witness == pc = "done" /\ returned = StepOrder /\ catalog = SalesSchema

\* C2: in a run whose connect succeeded the connection is closed exactly once,
\* at the end: it is open and not yet closed while the try body, the report or
\* the except clause runs, and closed once when run_extraction has returned,
\* whether or not a step raised
C2_ClosedOnce ==
    connected =>
        /\ closes <= 1
        /\ (pc \in RunningPcs => closes = 0 /\ conn = "open")
        /\ (pc \in {"done", "idle"} => closes = 1 /\ conn = "closed")

\* a run in which a step raised and the connection was closed once
C2_Witness == pc = "done" /\ connected /\ error # NoError /\ closes = 1 /\ conn = "closed"

\* C3: when connect_to_database fails, run_extraction returns without entering
\* a step, without touching an output file and without closing a connection
C3_ConnectFailure ==
    ConnectFailed =>
        /\ pc \in {"done", "idle"}
        /\ started = <<>>
        /\ files = filesAtStart
        /\ closes = 0

\* a failed connect in a run that found the files of an earlier run
C3_Witness ==
    /\ pc = "done"
    /\ ConnectFailed
    /\ runs = 2
    /\ \A f \in FileNames : ~IsNone(files[f])

\* C4: when the query of step k raises, the file of step k and of every later
\* step, the summary included, is left as it was when the run started, no later
\* step is entered, the files of the steps before k hold what this run rendered,
\* the except clause of run_extraction handles the error and the connection is
\* closed
C4_DbError ==
    (pc = "done" /\ error.kind = "db") =>
        LET k == StepIndex(error.step)
        IN  /\ started = SubSeq(StepOrder, 1, k)
            /\ returned = SubSeq(StepOrder, 1, k - 1)
            /\ \A j \in k..Len(StepOrder) :
                   files[FileOf(StepOrder[j])] = filesAtStart[FileOf(StepOrder[j])]
            /\ \A j \in 1..(k - 1) :
                   files[FileOf(StepOrder[j])] = Some(Rendered(catalog, StepOrder[j]).content)
            /\ caught
            /\ "Error during extraction" \in Range(printed)
            /\ conn = "closed"
            /\ closes = 1

\* the views query raised in a second run, after the schema had changed
C4_Witness ==
    /\ pc = "done"
    /\ error = [step |-> "views", kind |-> "db"]
    /\ runs = 2
    /\ prev.ok
    /\ prev.catalog # catalog
    /\ files["01_tables.sql"] # filesAtStart["01_tables.sql"]
    /\ files["04_views.sql"] = filesAtStart["04_views.sql"]

\* two complete runs, one after the other, that saw the same query results
TwoRunsSameSchema ==
    /\ pc = "done"
    /\ returned = StepOrder
    /\ prev.ok
    /\ prev.catalog = catalog

\* C5, as claimed: two complete runs against an unchanged schema leave
\* byte-identical content in every output file, the summary included
C5_AllFilesIdentical ==
    TwoRunsSameSchema => \A f \in FileNames : files[f] = prev.files[f]

\* C5, amended: the six files 01_tables.sql to 06_stored_procedures.sql are
\* byte-identical and hold what the query results render to; the summary is
\* byte-identical when the date and time text read by the two runs is the same
C5_DdlFilesIdentical ==
    TwoRunsSameSchema =>
        /\ \A j \in 1..(Len(StepOrder) - 1) :
               /\ files[FileOf(StepOrder[j])] = prev.files[FileOf(StepOrder[j])]
               /\ files[FileOf(StepOrder[j])] = Some(Rendered(catalog, StepOrder[j]).content)
        /\ (stamp = prev.stamp => files[FileOf("summary")] = prev.files[FileOf("summary")])

\* two complete runs of an unchanged, non-empty schema, a minute apart
C5_Witness ==
    /\ TwoRunsSameSchema
    /\ catalog = SalesSchema
    /\ stamp # prev.stamp
    /\ files[FileOf("summary")] # prev.files[FileOf("summary")]

\* ------------------------------------------------------------------------
\* extract_table_ddl on its own: specification and properties
\* ------------------------------------------------------------------------

\* the extractor at rest, before any run
ExtractorIdle ==
    /\ catalog = EmptySchema
    /\ platform = "posix"
    /\ clock = 0
    /\ files = [f \in FileNames |-> None]
    /\ pc = "idle"
    /\ conn = "none"
    /\ connected = FALSE
    /\ closes = 0
    /\ counts = <<>>
    /\ started = <<>>
    /\ returned = <<>>
    /\ error = NoError
    /\ caught = FALSE
    /\ printed = <<>>
    /\ filesAtStart = [f \in FileNames |-> None]
    /\ runs = 0
    /\ prev = [ok |-> FALSE, files |-> [f \in FileNames |-> None], catalog |-> EmptySchema,
               stamp |-> NoStamp]
    /\ stamp = NoStamp

InitTables == ExtractorIdle /\ TablesInit /\ KeysIdle /\ ParseIdle /\ TrainerIdle

NextTables ==
    \/ (TableRow /\ UNCHANGED <<xvars, kvars, pvars, rvars>>)
    \/ (TableSave /\ UNCHANGED <<xvars, kvars, pvars, rvars>>)

SpecTables == InitTables /\ [][NextTables]_vars

RECURSIVE UpToSpace(_)
\* the text before the first space
UpToSpace(s) ==
    IF s = "" \/ SubSeq(s, 1, 1) = " " THEN "" ELSE SubSeq(s, 1, 1) \o UpToSpace(Tail(s))

\* what col_def of the current row starts with: indentation, name, type
ColumnHead == "    " \o t_row.col_name \o " " \o Upper(t_row.data_type)

\* what follows the type in col_def of the current row, up to NOT NULL / DEFAULT
Suffix == UpToSpace(SubSeq(t_col_def, Len(ColumnHead) + 1, Len(t_col_def)))

IsCharType == Upper(t_row.data_type) \in {"VARCHAR", "NVARCHAR", "CHAR", "NCHAR"}
IsNumType == Upper(t_row.data_type) \in {"DECIMAL", "NUMERIC"}

\* the (schema, table) pairs of the fetched rows
PairsOf(results) == {<<results[i].schema, results[i].table_name>> : i \in 1..Len(results)}

\* the column definitions of one (schema, table) pair, in row order
ColDefsOf(results, pair) ==
    LET OfPair(r) == <<r.schema, r.table_name>> = pair
        rows == SelectSeq(results, OfPair)
    IN  [i \in 1..Len(rows) |-> ColDef(rows[i])]

\* C6: the text written by extract_table_ddl holds exactly one CREATE TABLE
\* block per distinct (schema, table) pair of the rows, that block lists the
\* columns of the pair in row order, and the returned count is the number of
\* distinct pairs
C6_OneBlockPerTable ==
    t_pc = "done" =>
        /\ CountOcc(t_content, "CREATE TABLE ") = Cardinality(PairsOf(t_results))
        /\ t_ret = Cardinality(PairsOf(t_results))
        /\ \A pair \in PairsOf(t_results) :
               Contains(t_content,
                        "CREATE TABLE " \o pair[1] \o "." \o pair[2] \o " (\n"
                        \o Join(",\n", ColDefsOf(t_results, pair)) \o "\n);\n\n")

\* C7: a column gets a length suffix exactly when its type is VARCHAR, NVARCHAR,
\* CHAR or NCHAR in any letter case and a maximum length is present: (MAX) for
\* -1 and (n) for a positive n; a column of another type never shows its length
C7_LengthSuffix ==
    t_row # NoRow =>
        /\ StartsWith(t_col_def, ColumnHead)
        /\ (IsCharType /\ ~IsNone(t_row.char_len) =>
                Suffix = IF Val(t_row.char_len) = -1 THEN "(MAX)"
                         ELSE "(" \o Str(Val(t_row.char_len)) \o ")")
        /\ (IsCharType /\ IsNone(t_row.char_len) => Suffix = "")
        /\ (~IsCharType /\ ~IsNone(t_row.char_len) =>
                Suffix \notin {"(MAX)", "(" \o Str(Val(t_row.char_len)) \o ")"})
        /\ (~IsCharType /\ ~IsNumType => Suffix = "")

\* an nchar column of unbounded length, rendered with (MAX)
C7_Witness ==
    /\ t_pc = "done"
    /\ t_row # NoRow
    /\ t_row.data_type = "nchar"
    /\ t_row.char_len = Some(-1)
    /\ t_row.num_prec = Some(10)
    /\ t_col_def = "    c1 NCHAR(MAX) NOT NULL"

\* C8: a DECIMAL or NUMERIC column with a precision p shows (p) when the scale
\* is absent or zero and (p,s) for a non-zero scale s; a column of another type
\* never shows a precision or scale, and no column shows two suffixes
C8_PrecisionSuffix ==
    t_row # NoRow =>
        /\ (IsNumType /\ ~IsNone(t_row.num_prec) =>
                Suffix = IF IsNone(t_row.num_scale) \/ Val(t_row.num_scale) = 0
                         THEN "(" \o Str(Val(t_row.num_prec)) \o ")"
                         ELSE "(" \o Str(Val(t_row.num_prec)) \o "," \o Str(Val(t_row.num_scale)) \o ")")
        /\ (~IsNumType => ~Contains(Suffix, ","))
        /\ (~IsNumType /\ ~IsNone(t_row.num_prec) =>
                ~Contains(Suffix, Str(Val(t_row.num_prec))))
        /\ CountOcc(Suffix, "(") <= 1

\* a Numeric column with precision and scale, which also carries a length
C8_Witness ==
    /\ t_pc = "done"
    /\ t_row # NoRow
    /\ t_row.data_type = "Numeric"
    /\ t_row.char_len = Some(50)
    /\ t_col_def = "    c1 NUMERIC(10,2) NOT NULL DEFAULT ((0))"

\* ------------------------------------------------------------------------
\* the key and index methods on their own: specification and properties
\* ------------------------------------------------------------------------

InitKeys == ExtractorIdle /\ TablesIdle /\ KeysInit /\ ParseIdle /\ TrainerIdle

NextKeys ==
    \/ (KeysExtractPrimaryKeys /\ UNCHANGED <<xvars, tvars, pvars, rvars>>)
    \/ (KeysExtractForeignKeys /\ UNCHANGED <<xvars, tvars, pvars, rvars>>)
    \/ (KeysExtractIndexes /\ UNCHANGED <<xvars, tvars, pvars, rvars>>)

SpecKeys == InitKeys /\ [][NextKeys]_vars

RECURSIVE Concat(_)
\* the texts of a sequence, one after the other
Concat(texts) == IF texts = <<>> THEN "" ELSE Head(texts) \o Concat(Tail(texts))

\* the one statement of a primary key, with all its columns
PkStatementOf(pk) ==
    "ALTER TABLE " \o pk.schema \o "." \o pk.table_name \o "\n"
    \o "ADD CONSTRAINT " \o pk.name \o " PRIMARY KEY (" \o Join(", ", pk.cols) \o ");\n\n"

\* the one statement of a foreign key, with all its columns
FkStatementOf(fk) ==
    "ALTER TABLE " \o fk.schema \o "." \o fk.table_name \o "\n"
    \o "ADD CONSTRAINT " \o fk.name \o " FOREIGN KEY (" \o Join(", ", fk.cols) \o ")\n"
    \o "REFERENCES " \o fk.ref_schema \o "." \o fk.ref_table \o "(" \o Join(", ", fk.ref_cols) \o ");\n\n"

\* the one statement of an index, with all its columns
IndexStatementOf(ix) ==
    "CREATE " \o (IF ix.is_unique THEN "UNIQUE " ELSE "") \o "INDEX " \o ix.name \o "\n"
    \o "ON " \o ix.schema \o "." \o ix.table_name \o " (" \o Join(", ", ix.cols) \o ");\n\n"

\* extract_primary_keys writes one statement per primary key, in catalog order,
\* and returns their number
KeysPrimaryKeysExact ==
    k_pc \in {"foreign_keys", "indexes", "done"} =>
        /\ k_files["primary_keys"] =
               PkHeader \o Concat([i \in 1..Len(k_catalog.pks) |-> PkStatementOf(k_catalog.pks[i])])
        /\ CountOcc(k_files["primary_keys"], "ADD CONSTRAINT ") = Len(k_catalog.pks)
        /\ k_counts["primary_keys"] = Len(k_catalog.pks)

\* extract_foreign_keys writes one statement per foreign key, in catalog order,
\* and returns their number
KeysForeignKeysExact ==
    k_pc \in {"indexes", "done"} =>
        /\ k_files["foreign_keys"] =
               FkHeader \o Concat([i \in 1..Len(k_catalog.fks) |-> FkStatementOf(k_catalog.fks[i])])
        /\ CountOcc(k_files["foreign_keys"], "ADD CONSTRAINT ") = Len(k_catalog.fks)
        /\ k_counts["foreign_keys"] = Len(k_catalog.fks)

\* extract_indexes writes one statement per index, in catalog order, and
\* returns their number
KeysIndexesExact ==
    k_pc = "done" =>
        /\ k_files["indexes"] =
               IndexHeader \o Concat([i \in 1..Len(k_catalog.indexes) |-> IndexStatementOf(k_catalog.indexes[i])])
        /\ CountOcc(k_files["indexes"], "INDEX ") = Len(k_catalog.indexes)
        /\ k_counts["indexes"] = Len(k_catalog.indexes)

\* C9: for every primary key, foreign key and index of the catalog the three
\* methods write exactly one statement, listing all the columns of the key or
\* index in order, separated by commas; the statements follow the query order
\* and the returned count is the number of keys or indexes
C9_OneStatementPerKey == KeysPrimaryKeysExact /\ KeysForeignKeysExact /\ KeysIndexesExact

\* ------------------------------------------------------------------------
\* parse_example_file on its own: specification and properties
\* ------------------------------------------------------------------------

InitParse == ExtractorIdle /\ TablesIdle /\ KeysIdle /\ ParseInit /\ TrainerIdle

NextParse ==
    \/ (ParseLineStep /\ UNCHANGED <<xvars, tvars, kvars, rvars>>)
    \/ (ParseReturn /\ UNCHANGED <<xvars, tvars, kvars, rvars>>)

SpecParse == InitParse /\ [][NextParse]_vars

\* the lines of the input that are not blank
NonBlank(content) ==
    LET NotBlank(l) == Strip(l) # "" IN SelectSeq(Split(content, "\n"), NotBlank)

\* what a line carries after its prefix, without the surrounding whitespace
Payload(line, prefix) == Strip(From(Strip(line), Len(prefix)))

\* the input is made of alternating Q: and SQL: lines with non-empty question
\* and statement, blank lines apart
Alternating(content) ==
    LET ls == NonBlank(content)
    IN  /\ Len(ls) % 2 = 0
        /\ \A i \in 1..Len(ls) :
               IF i % 2 = 1
               THEN StartsWith(Strip(ls[i]), "Q:") /\ Payload(ls[i], "Q:") # ""
               ELSE StartsWith(Strip(ls[i]), "SQL:") /\ Payload(ls[i], "SQL:") # ""

\* C10: for an input of n alternating Q: / SQL: lines with non-empty questions
\* and statements, blank lines apart, parse_example_file returns exactly the n
\* pairs (question_i, statement_i), trimmed, in input order
C10_AlternatingPairs ==
    (p_pc = "done" /\ Alternating(p_content)) =>
        LET ls == NonBlank(p_content)
        IN  p_examples = [i \in 1..(Len(ls) \div 2) |->
                             [question |-> Payload(ls[2 * i - 1], "Q:"),
                              sql |-> Payload(ls[2 * i], "SQL:")]]

\* the two-pair example of the format, separated by a blank line
C10_Witness ==
    /\ p_pc = "done"
    /\ p_content = "Q: a?\nSQL: b;\n\n  Q:c ?\t\n\tSQL:  d; \r"
    /\ Alternating(p_content)
    /\ p_examples = << [question |-> "a?", sql |-> "b;"], [question |-> "c ?", sql |-> "d;"] >>


\* a line of the input that sets the pending question / the pending statement
IsQuestionLine(l) == StartsWith(Strip(l), "Q:")
IsSqlLine(l) == ~IsQuestionLine(l) /\ StartsWith(Strip(l), "SQL:")

\* the last Q: line before line j, 0 when there is none
LastQuestion(ls, j) ==
    LET qs == {i \in 1..(j - 1) : IsQuestionLine(ls[i])}
    IN  IF qs = {} THEN 0 ELSE Max(qs)

\* the SQL: lines among the first n lines that close a pair: a non-empty
\* statement whose most recent Q: line carries a non-empty question that no
\* earlier statement has taken
ClosingLines(ls, n) ==
    {j \in 1..n :
        /\ IsSqlLine(ls[j])
        /\ Payload(ls[j], "SQL:") # ""
        /\ LET i == LastQuestion(ls, j)
           IN  /\ i > 0
               /\ Payload(ls[i], "Q:") # ""
               /\ \A m \in (i + 1)..(j - 1) :
                      ~(IsSqlLine(ls[m]) /\ Payload(ls[m], "SQL:") # "")}

\* the k-th smallest element of a set of numbers
Kth(S, k) == CHOOSE x \in S : Cardinality({y \in S : y < x}) = k - 1

\* C11: a Q: line followed by another Q: line with no SQL: line between is
\* dropped: every emitted pair joins a SQL: line with the most recent Q: line
\* before it and with no other, so the earlier question is in no pair
C11_LaterQuestionWins ==
    p_pc \in {"loop", "done"} =>
        LET js == ClosingLines(p_lines, p_i)
        IN  /\ Len(p_examples) = Cardinality(js)
            /\ \A k \in 1..Len(p_examples) :
                   LET j == Kth(js, k)
                   IN  p_examples[k] =
                           [question |-> Payload(p_lines[LastQuestion(p_lines, j)], "Q:"),
                            sql |-> Payload(p_lines[j], "SQL:")]

\* two questions in a row, then a statement: only the second question is paired
C11_Witness ==
    /\ p_pc = "done"
    /\ p_content = "Q: a?\nQ: c?\nSQL: b;"
    /\ p_examples = << [question |-> "c?", sql |-> "b;"] >>

\* the loop body has just handled the line p_lines[p_i + 1]
HandledLine == p_pc = "loop" /\ p_i' = p_i + 1

\* a SQL: line has committed the pending question with its own statement and
\* cleared both pending slots
CommittedPair ==
    /\ p_examples' = Append(p_examples, [question |-> Val(p_current_question),
                                         sql |-> Payload(p_lines[p_i + 1], "SQL:")])
    /\ p_current_question' = None
    /\ p_current_sql' = None

\* C12 as stated: every SQL: line met while a question is pending commits one
\* pair and clears both slots, a SQL: line met with no pending question commits
\* nothing, and a Q: line never commits
C12_EverySqlLineCommits ==
    [][HandledLine =>
        /\ (IsSqlLine(p_lines[p_i + 1]) /\ TruthyStr(p_current_question)) => CommittedPair
        /\ (IsSqlLine(p_lines[p_i + 1]) /\ ~TruthyStr(p_current_question)) =>
               (p_examples' = p_examples /\ p_current_question' = p_current_question)
        /\ ~IsSqlLine(p_lines[p_i + 1]) => p_examples' = p_examples]_vars

\* C12 amended: a SQL: line with a non-empty statement met while a non-empty
\* question is pending commits one pair and clears both slots; a SQL: line with
\* an empty statement, or met with no pending question, commits nothing and
\* leaves the pending question as it was; a Q: line never commits, so a
\* statement left over is never paired with a later question
C12_NonEmptySqlLineCommits ==
    [][HandledLine =>
        LET line == p_lines[p_i + 1]
            full == IsSqlLine(line) /\ Payload(line, "SQL:") # ""
        IN  /\ (full /\ TruthyStr(p_current_question)) => CommittedPair
            /\ (IsSqlLine(line) /\ ~(full /\ TruthyStr(p_current_question))) =>
                   (p_examples' = p_examples /\ p_current_question' = p_current_question)
            /\ ~IsSqlLine(line) => p_examples' = p_examples]_vars

\* a question, its statement, and a second statement that finds nothing pending
C12_Witness ==
    /\ p_pc = "done"
    /\ p_content = "Q: a?\nSQL: b;\nSQL: d;"
    /\ p_examples = << [question |-> "a?", sql |-> "b;"] >>
    /\ p_current_question = None
    /\ p_current_sql = Some("d;")


\* ------------------------------------------------------------------------
\* run_training: specification and properties
\* ------------------------------------------------------------------------

InitTrain == ExtractorIdle /\ TablesIdle /\ KeysIdle /\ ParseIdle /\ TrainerInit

NextTrain ==
    \/ (RunTrainingStart /\ UNCHANGED <<xvars, tvars, kvars, pvars>>)
    \/ ((\E resp \in Responses : AutoTrainStep(resp)) /\ UNCHANGED <<xvars, tvars, kvars, pvars>>)
    \/ (EnterDirectory /\ UNCHANGED <<xvars, tvars, kvars, pvars>>)
    \/ ((\E resp \in Responses : ProcessFile(resp)) /\ UNCHANGED <<xvars, tvars, kvars, pvars>>)
    \/ ((\E resp \in Responses : ExamplePost(resp)) /\ UNCHANGED <<xvars, tvars, kvars, pvars>>)
    \/ (ExamplesReturn /\ UNCHANGED <<xvars, tvars, kvars, pvars>>)
    \/ (LeaveDirectory /\ UNCHANGED <<xvars, tvars, kvars, pvars>>)
    \/ (Summary /\ UNCHANGED <<xvars, tvars, kvars, pvars>>)

SpecTrain == InitTrain /\ [][NextTrain]_vars


\* the listing entry of a file of a directory under data/
FileNamed(dir, name) == CHOOSE entry \in Range(Val(r_fs.dirs[dir])) : entry.name = name

\* the operations that issue a POST
TrainingCalls == {"auto_train", "train_ddl", "train_documentation", "train_example"}

\* the service answered 200 with a JSON object whose status member is "success"
Accepted(resp) ==
    /\ resp.kind = "response"
    /\ resp.status_code = 200
    /\ resp.body.json = "object"
    /\ resp.body.status = Some("success")

\* C13: each call of train_documentation, train_ddl, auto_train and each
\* example sent by train_examples is recorded as succeeded exactly when the
\* answer is HTTP 200 with a JSON body whose status is "success"; any other
\* status value, any other HTTP code, a body that cannot be decoded, a timeout
\* or another request exception is recorded as failed, and nothing is raised
C13_SuccessIffStatusSuccess ==
    /\ r_pc # "raised"
    /\ r_call # NoCall =>
           /\ r_call.operation \in TrainingCalls
           /\ r_call.success = Accepted(r_resp)
           /\ r_posts[Len(r_posts)].success = r_call.success

\* auto-training accepted, and the last example of the run timed out: the run
\* went on to its end with the example recorded as failed
C13_Witness ==
    /\ r_pc = "done"
    /\ r_posts # <<>>
    /\ r_posts[1].url = "/train/auto" /\ r_posts[1].success
    /\ r_call.operation = "train_example"
    /\ r_resp = RequestException("Timeout")
    /\ ~r_call.success


\* the POSTs of the examples of one file, in the order they were issued
ExamplePosts(dir, file) ==
    LET OfFile(p) == p.url = "/train/question-sql" /\ p.dir = dir /\ p.file = file
    IN  SelectSeq(r_posts, OfFile)

\* the pairs parse_example_file returns for a file of a directory
PairsIn(dir, file) == parse_example_file(extract_file_content(FileNamed(dir, file)))

\* C14: train_examples issues exactly one POST to /train/question-sql per pair
\* returned by parse_example_file, in parse order, going on after a pair that
\* failed, and returns success iff at least one of these calls succeeded; a
\* file that parses to zero pairs issues no request and is not trained
C14_OnePostPerPair ==
    /\ \A i \in 1..Len(r_trained) :
           r_trained[i].operation = "train_examples" =>
               LET t == r_trained[i]
                   pairs == PairsIn(t.dir, t.file)
                   sent == ExamplePosts(t.dir, t.file)
               IN  /\ Len(sent) = Len(pairs)
                   /\ \A k \in 1..Len(sent) : sent[k].json = pairs[k] /\ sent[k].index = k
                   /\ t.success = (\E k \in 1..Len(sent) : sent[k].success)
    /\ r_pc = "example" =>
           LET file == r_files[r_k + 1].name
               dir == Phases[r_phase].dir
               sent == ExamplePosts(dir, file)
           IN  /\ Len(sent) = r_e
               /\ \A k \in 1..Len(sent) : sent[k].json = PairsIn(dir, file)[k]

\* a file of two pairs whose first example failed and whose second succeeded,
\* after a file without any pair
C14_Witness ==
    /\ r_pc = "done"
    /\ LET sent == ExamplePosts("examples", "queries.txt")
       IN  /\ Len(sent) = 2
           /\ ~sent[1].success
           /\ sent[2].success
           /\ sent[2].json = [question |-> "c?", sql |-> "d;"]
    /\ ExamplePosts("examples", "manual.pdf") = <<>>
    /\ \E i \in 1..Len(r_trained) :
           /\ r_trained[i].operation = "train_examples"
           /\ r_trained[i].file = "manual.pdf"
           /\ ~r_trained[i].success
    /\ \E i \in 1..Len(r_trained) :
           /\ r_trained[i].operation = "train_examples"
           /\ r_trained[i].file = "queries.txt"
           /\ r_trained[i].success


\* the entries of a log made for one directory
OfDir(log, dir) == LET InDir(x) == x.dir = dir IN SelectSeq(log, InDir)

\* C15: process_directory called on a path that does not exist returns 0
\* without raising, without reading a file and without a network call, for
\* every training type
C15_MissingDirectory ==
    \A dir \in DirNames :
        (IsNone(r_fs.dirs[dir]) /\ dir \in Range(r_phases)) =>
            /\ r_pc # "raised"
            /\ r_counts[dir] = Some(0)
            /\ OfDir(r_processed, dir) = <<>>
            /\ OfDir(r_reads, dir) = <<>>
            /\ OfDir(r_posts, dir) = <<>>

\* none of the four directories exists: each call returned 0 and the only
\* request of the run is the one of auto-training
C15_Witness ==
    /\ r_pc = "done"
    /\ r_fs.data
    /\ \A dir \in DirNames : IsNone(r_fs.dirs[dir]) /\ r_counts[dir] = Some(0)
    /\ r_phases = <<"auto", "ddl", "docs", "general", "examples">>
    /\ Len(r_posts) = 1
    /\ r_reads = <<>>

\* the entries of a directory that one of the four patterns matches
Matching(listing) ==
    {entry \in Range(listing) :
        \E ending \in {".pdf", ".txt", ".md", ".sql"} : EndsWith(entry.name, ending)}

\* the training operation the classification of a directory stands for
OperationOf(dir) ==
    IF dir = "ddl" THEN "train_ddl"
    ELSE IF dir = "examples" THEN "train_examples"
    ELSE "train_documentation"

\* C16: for a directory that exists, process_directory takes up exactly the
\* entries of the directory itself that match *.pdf, *.txt, *.md or *.sql, each
\* once; a file whose extracted content is empty gets no training call and is
\* not counted; every other file gets exactly one training operation, the one
\* of the directory's classification; the value returned is the number of
\* files whose operation returned success
C16_ExistingDirectory ==
    \A dir \in DirNames :
        (~IsNone(r_fs.dirs[dir]) /\ ~IsNone(r_counts[dir])) =>
            LET matching == Matching(Val(r_fs.dirs[dir]))
                taken == OfDir(r_processed, dir)
                trained == OfDir(r_trained, dir)
            IN  /\ Len(taken) = Cardinality(matching)
                /\ {taken[i].file : i \in 1..Len(taken)} = {entry.name : entry \in matching}
                /\ \A i \in 1..Len(trained) : \E entry \in matching : entry.name = trained[i].file
                /\ \A entry \in matching :
                       LET calls == {i \in 1..Len(trained) : trained[i].file = entry.name}
                           posts == {i \in 1..Len(r_posts) :
                                        r_posts[i].dir = dir /\ r_posts[i].file = entry.name}
                       IN  IF extract_file_content(entry) = ""
                           THEN calls = {} /\ posts = {}
                           ELSE /\ Cardinality(calls) = 1
                                /\ \A i \in calls : trained[i].operation = OperationOf(dir)
                /\ Val(r_counts[dir]) =
                       Cardinality({i \in 1..Len(trained) : trained[i].success})

\* a ddl directory with one file that has content among three that have none,
\* and a docs directory whose two files were both trained, next to files the
\* patterns do not match
C16_Witness ==
    /\ r_pc = "done"
    /\ r_fs.dirs["ddl"] = DirChoices[3]
    /\ r_counts["ddl"] = Some(1)
    /\ Len(OfDir(r_processed, "ddl")) = 4
    /\ Len(OfDir(r_trained, "ddl")) = 1
    /\ r_fs.dirs["docs"] = DirChoices[4]
    /\ r_counts["docs"] = Some(2)
    /\ Len(OfDir(r_processed, "docs")) = 2


PhaseOrder == <<"auto", "ddl", "docs", "general", "examples">>

IsPrefix(s, t) == Len(s) <= Len(t) /\ s = SubSeq(t, 1, Len(s))

\* C17: run_training enters its phases in the order auto-train, data/ddl,
\* data/docs, data/general, data/examples; no outcome of a phase, file or
\* example raises out of the run or keeps a later phase from being entered, so
\* a run that began with auto-train has entered all five when it reaches the
\* summary
C17_PhasesInOrder ==
    /\ r_pc # "raised"
    /\ IsPrefix(r_phases, PhaseOrder)
    /\ (r_phases # <<>> /\ r_pc \in {"summary", "done"}) => r_phases = PhaseOrder
    /\ (r_pc \in {"enter", "file", "example"}) =>
           (Len(r_phases) >= 1 /\ r_phase \in 1..Len(Phases))

\* auto-training failed, every call of the run failed, and the four
\* directories were entered all the same
C17_Witness ==
    /\ r_pc = "done"
    /\ r_auto = Some(FALSE)
    /\ r_phases = PhaseOrder
    /\ Len(r_posts) > 1
    /\ \A i \in 1..Len(r_posts) : ~r_posts[i].success

\* the last lines printed are the summary: its heading, one line for each of
\* auto-training, DDL files, documentation files, example files and the total,
\* and the closing line
SummaryAtEnd ==
    LET n == Len(r_printed)
    IN  /\ n >= 7
        /\ r_printed[n - 6] = "Training Summary:"
        /\ StartsWith(r_printed[n - 5], "   Auto-training: ")
        /\ StartsWith(r_printed[n - 4], "   DDL files: ")
        /\ StartsWith(r_printed[n - 3], "   Documentation files: ")
        /\ StartsWith(r_printed[n - 2], "   Example files: ")
        /\ StartsWith(r_printed[n - 1], "   Total successful operations: ")

\* C18 as stated: every run of run_training ends with the printed summary,
\* whatever the state of the data directory and whatever failed
C18_AlwaysSummary == r_pc = "done" => SummaryAtEnd

\* C18 amended: a run that finds the data directory ends with the printed
\* summary whatever its directories hold and whatever failed; a run that does
\* not find the data directory prints that it is missing and ends without a
\* summary, without entering a phase and without a request
C18_SummaryWhenDataExists ==
    /\ r_pc # "raised"
    /\ r_pc = "done" =>
           IF r_fs.data
           THEN SummaryAtEnd
           ELSE /\ r_printed = <<"Data directory 'data' not found!">>
                /\ r_phases = <<>>
                /\ r_posts = <<>>
    /\ r_pc \notin {"done", "idle"} => ~SummaryAtEnd

\* the data directory has none of its four directories and auto-training
\* failed: the summary is printed all the same
C18_Witness ==
    /\ r_pc = "done"
    /\ r_fs.data
    /\ \A dir \in DirNames : IsNone(r_fs.dirs[dir])
    /\ r_auto = Some(FALSE)
    /\ SummaryAtEnd
    /\ r_printed[Len(r_printed)] = "No training data was successfully processed."


\* the POSTs issued for one item: a URL, a directory, a file and the number
\* of an example in it (0 for a whole file, "" for no directory and no file)
PostsFor(url, dir, file, index) ==
    {i \in 1..Len(r_posts) :
        /\ r_posts[i].url = url
        /\ r_posts[i].dir = dir
        /\ r_posts[i].file = file
        /\ r_posts[i].index = index}

\* the URL of the operation of a directory
UrlOf(dir) ==
    IF dir = "ddl" THEN "/train/ddl"
    ELSE IF dir = "examples" THEN "/train/question-sql"
    ELSE "/train/documentation"

\* the items of a directory that are to be posted: one per file with content,
\* one per parsed pair in the examples directory
ItemsOf(dir) ==
    IF IsNone(r_fs.dirs[dir]) THEN {}
    ELSE IF dir = "examples"
    THEN UNION { { <<entry.name, k>> :
                     k \in 1..Len(parse_example_file(extract_file_content(entry))) }
                 : entry \in Matching(Val(r_fs.dirs[dir])) }
    ELSE { <<entry.name, 0>> : entry \in
               { e \in Matching(Val(r_fs.dirs[dir])) : extract_file_content(e) # "" } }

\* at the end of a run every item has been posted exactly once and nothing else
PostedOnce ==
    /\ Cardinality(PostsFor("/train/auto", "", "", 0)) = 1
    /\ \A dir \in DirNames : \A item \in ItemsOf(dir) :
           Cardinality(PostsFor(UrlOf(dir), dir, item[1], item[2])) = 1
    /\ Len(r_posts) = 1 + Cardinality(UNION { {dir} \X ItemsOf(dir) : dir \in DirNames })

\* no item is ever posted twice
NeverTwice ==
    \A i, j \in 1..Len(r_posts) :
        (/\ r_posts[i].url = r_posts[j].url
         /\ r_posts[i].dir = r_posts[j].dir
         /\ r_posts[i].file = r_posts[j].file
         /\ r_posts[i].index = r_posts[j].index) => i = j

\* a step that issued a request whose call was recorded as failed: the next
\* request, if any, is for another item, and nothing recorded before changes
FailureStaysLocal ==
    (Len(r_posts') = Len(r_posts) + 1 /\ ~r_posts'[Len(r_posts')].success) =>
        /\ SubSeq(r_posts', 1, Len(r_posts)) = r_posts
        /\ SubSeq(r_trained', 1, Len(r_trained)) = r_trained
        /\ \A i \in (Len(r_trained) + 1)..Len(r_trained') : ~r_trained'[i].success
        /\ r_success_count' = r_success_count
        /\ r_ex_success_count' = r_ex_success_count
        /\ r_total_success' = r_total_success
        /\ r_counts' = r_counts
        /\ (r_auto' = r_auto \/ (r_pc = "auto" /\ r_auto' = Some(FALSE)))

\* C19 as stated: in every run exactly one auto-train POST, one POST per file
\* with content in ddl, docs and general and one POST per parsed pair of each
\* examples file, none twice; a failed call changes the recorded result of its
\* own item only
C19_EveryItemOnce ==
    /\ [](NeverTwice)
    /\ [](r_pc = "done" => PostedOnce)
    /\ [][FailureStaysLocal]_vars

\* C19 amended: the same in every run that finds the data directory; a run
\* that does not find it issues no request at all
C19_EveryItemOnceWhenDataExists ==
    /\ [](NeverTwice)
    /\ [](r_pc = "done" => IF r_fs.data THEN PostedOnce ELSE r_posts = <<>>)
    /\ [][FailureStaysLocal]_vars

\* two documentation files: the first was trained, the second failed, and the
\* count of the directory kept the first
C19_Witness ==
    /\ r_pc = "done"
    /\ r_fs.dirs["docs"] = DirChoices[4]
    /\ LET sent == OfDir(r_posts, "docs")
       IN  /\ Len(sent) = 2
           /\ sent[1].success
           /\ ~sent[2].success
    /\ r_counts["docs"] = Some(1)
    /\ PostedOnce

\* C20: in the printed summary the auto-training mark shows success exactly
\* when the auto_train call of this run returned success, however many files
\* were trained, and the total is 1 for a successful auto_train, else 0, plus
\* the four counts returned for the directories
C20_SummaryReflectsAutoTrain ==
    (r_pc = "done" /\ SummaryAtEnd) =>
        LET n == Len(r_printed)
            auto == IF r_auto = Some(TRUE) THEN 1 ELSE 0
        IN  /\ r_printed[n - 5] =
                   "   Auto-training: " \o (IF r_auto = Some(TRUE) THEN CheckMark ELSE CrossMark)
            /\ r_printed[n - 1] =
                   "   Total successful operations: "
                   \o Str(auto + CountOf("ddl") + CountOf("docs") + CountOf("general")
                          + CountOf("examples"))


\* ------------------------------------------------------------------------
\* The service script (vanna-ai/app.py) answering the loader
\* ------------------------------------------------------------------------

\* lines 205-242: the routes the script registers on flask_app
Routes == { [rule |-> "/train/auto", method |-> "POST"],
            [rule |-> "/train/ddl", method |-> "POST"],
            [rule |-> "/health", method |-> "GET"],
            [rule |-> "/test-openai", method |-> "GET"] }

\* lines 206-215: train_auto; vn_ok tells whether the calls on vn went through
app_train_auto(vn_ok) ==
    IF vn_ok THEN Response(200, JsonObject(Some("success")))
    ELSE Response(200, JsonObject(Some("error")))

\* lines 218-230: train_ddl on the JSON body of the request
app_train_ddl(json, vn_ok) ==
    IF json = None THEN Response(200, JsonObject(Some("error")))
    ELSE IF json.ddl = "" THEN Response(200, JsonObject(Some("error")))
    ELSE IF vn_ok THEN Response(200, JsonObject(Some("success")))
    ELSE Response(200, JsonObject(Some("error")))

\* what the Flask application answers to a POST: the view of the route the
\* script registered for the path, and for any other path an error page that
\* is no JSON (404, or 405 where the application of the library has a route
\* for the path with other methods)
Serve(url, json) ==
    IF [rule |-> url, method |-> "POST"] \notin Routes
    THEN { Response(404, NotJson), Response(405, NotJson) }
    ELSE IF url = "/train/auto" THEN { app_train_auto(vn_ok) : vn_ok \in BOOLEAN }
    ELSE { app_train_ddl(json, vn_ok) : vn_ok \in BOOLEAN }

\* the request the loader is about to send, None where it is not about to send one
NextRequest ==
    IF r_pc = "auto" THEN Some([url |-> Endpoint("auto_train"), json |-> None])
    ELSE IF r_pc = "example" /\ r_e < Len(r_examples)
    THEN Some([url |-> Endpoint("train_examples"), json |-> r_examples[r_e + 1]])
    ELSE IF r_pc = "file" /\ r_k < Len(r_files)
    THEN LET operation == TrainingOperation(Phases[r_phase].training_type)
         IN  Some([url |-> Endpoint(operation),
                   json |-> ContentJson(operation, extract_file_content(r_files[r_k + 1]))])
    ELSE None

\* what requests.post can produce when the service script is the one running
Answers == IF NextRequest = None THEN {} ELSE Serve(Val(NextRequest).url, Val(NextRequest).json)

\* run_training against the running service script
NextService ==
    \/ (RunTrainingStart /\ UNCHANGED <<xvars, tvars, kvars, pvars>>)
    \/ ((\E resp \in Answers : AutoTrainStep(resp)) /\ UNCHANGED <<xvars, tvars, kvars, pvars>>)
    \/ (EnterDirectory /\ UNCHANGED <<xvars, tvars, kvars, pvars>>)
    \/ ((\E resp \in Answers : ProcessFile(resp)) /\ UNCHANGED <<xvars, tvars, kvars, pvars>>)
    \/ ((\E resp \in Answers : ExamplePost(resp)) /\ UNCHANGED <<xvars, tvars, kvars, pvars>>)
    \/ (ExamplesReturn /\ UNCHANGED <<xvars, tvars, kvars, pvars>>)
    \/ (LeaveDirectory /\ UNCHANGED <<xvars, tvars, kvars, pvars>>)
    \/ (Summary /\ UNCHANGED <<xvars, tvars, kvars, pvars>>)

SpecService == InitTrain /\ [][NextService]_vars

\* C21: every endpoint the loader posts to (/train/auto, /train/ddl,
\* /train/documentation, /train/question-sql) is served by a route the service
\* script registers, which answers with a JSON object that carries a status,
\* so every request of a run gets such an answer
C21_EndpointsServed ==
    /\ \A i \in 1..Len(r_posts) : [rule |-> r_posts[i].url, method |-> "POST"] \in Routes
    /\ r_call # NoCall =>
           /\ r_resp.kind = "response"
           /\ r_resp.status_code = 200
           /\ r_resp.body.json = "object"
           /\ r_resp.body.status # None

====
